---- MODULE Spec2Model ----
(***************************************************************************)
(* A model of the grocy client library: the transport client               *)
(* (grocy_api_client.py), its response models (pydantic schemas), the      *)
(* ChoreLog / Equipment domain objects and the managers built on them.     *)
(*                                                                         *)
(* Python values are tagged records [t |-> <type>, v |-> <payload>] so     *)
(* that None, an empty list, an empty dict and an empty string are four    *)
(* different values, as they are in Python.                                *)
(***************************************************************************)
EXTENDS Integers, Sequences, FiniteSets, TLC

VARIABLES
    client,     \* GrocyApiClient fields fixed by __init__
    srv,        \* the server's data (external collaborator)
    call,       \* the library call made last: its name and arguments
    wire,       \* the HTTP exchanges of that call, in order
    outcome,    \* what the call gave its caller: a value or an exception
    grocy       \* the Grocy facade: its cached managers, the objects constructed

vars == <<client, srv, call, wire, outcome, grocy>>

-----------------------------------------------------------------------------
(* Python values *)

NoneV == [t |-> "None", v |-> <<>>]
PyInt(n) == [t |-> "int", v |-> n]
PyStr(s) == [t |-> "str", v |-> s]
PyBool(b) == [t |-> "bool", v |-> b]
PyList(s) == [t |-> "list", v |-> s]
PyDict(d) == [t |-> "dict", v |-> d]
PyBytes(b) == [t |-> "bytes", v |-> b]
PyObj(o) == [t |-> "object", v |-> o]

\* the empty dict: a function with no keys
EmptyDict == PyDict(<<>>)

\* bool(x) as Python's `if x:` takes it
Truthy(x) ==
    CASE x.t = "None" -> FALSE
      [] x.t = "int" -> x.v # 0
      [] x.t = "bool" -> x.v
      [] x.t = "str" -> x.v # ""
      [] x.t = "list" -> Len(x.v) > 0
      [] x.t = "dict" -> DOMAIN x.v # {}
      [] x.t = "bytes" -> Len(x.v) > 0
      [] OTHER -> TRUE

-----------------------------------------------------------------------------
(* What a call gives its caller *)

NoValue == [t |-> "NoValue", v |-> <<>>]
NoError == [type |-> "NoError", status_code |-> 0, body |-> [enc |-> "none"]]

Return(value) == [kind |-> "return", value |-> value, error |-> NoError]
Raise(error) == [kind |-> "raise", value |-> NoValue, error |-> error]

\* errors.py: GrocyError(resp) keeps the response's status code and body
GrocyError(resp) ==
    [type |-> "GrocyError", status_code |-> resp.status_code, body |-> resp.content]

\* an exception of the Python runtime or of a library, raised as it is
PyError(type) == [type |-> type, status_code |-> 0, body |-> [enc |-> "none"]]

\* no facade constructed
NoFacade == [_api_client |-> 0, objects |-> <<>>, dict |-> <<>>]

\* before any call
NoOutcome == [kind |-> "none", value |-> NoValue, error |-> NoError]

-----------------------------------------------------------------------------
(* requests.Response.json(): the body's bytes parsed as JSON.  The bodies  *)
(* of this model are: null, one digit, a list of digits, the empty object. *)

Digits == {"0", "1", "2", "3", "4", "5", "6", "7", "8", "9"}

DigitVal(c) ==
    CASE c = "0" -> 0 [] c = "1" -> 1 [] c = "2" -> 2 [] c = "3" -> 3
      [] c = "4" -> 4 [] c = "5" -> 5 [] c = "6" -> 6 [] c = "7" -> 7
      [] c = "8" -> 8 [] c = "9" -> 9

\* the text between the brackets of a list: d ("," d)*
IsDigitList(s) ==
    /\ Len(s) % 2 = 1
    /\ \A i \in 1..Len(s) : IF i % 2 = 1 THEN s[i] \in Digits ELSE s[i] = ","

JsonElements(s) == [k \in 1..((Len(s) + 1) \div 2) |-> PyInt(DigitVal(s[2 * k - 1]))]

ParseJson(content) ==
    IF content = <<"n", "u", "l", "l">> THEN Return(NoneV)
    ELSE IF Len(content) = 1 /\ content[1] \in Digits
        THEN Return(PyInt(DigitVal(content[1])))
    ELSE IF content = <<"{", "}">> THEN Return(EmptyDict)
    ELSE IF content = <<"[", "]">> THEN Return(PyList(<<>>))
    ELSE IF /\ Len(content) >= 3
            /\ content[1] = "["
            /\ content[Len(content)] = "]"
            /\ IsDigitList(SubSeq(content, 2, Len(content) - 1))
        THEN Return(PyList(JsonElements(SubSeq(content, 2, Len(content) - 1))))
    ELSE Raise(PyError("JSONDecodeError"))

-----------------------------------------------------------------------------
(* HTTP responses.  A body is either raw text (its characters) or stands   *)
(* for the JSON text of a document, which is never empty and which json()  *)
(* parses back to the document.                                            *)

Text(chars) == [enc |-> "text", chars |-> chars, doc |-> NoneV]
Doc(value) == [enc |-> "doc", chars |-> <<>>, doc |-> value]
EmptyBody == Text(<<>>)

\* len(resp.content)
ContentLen(content) ==
    IF content.enc = "text" THEN Len(content.chars) ELSE 1  \* at least one character

\* resp.json()
Json(content) ==
    IF content.enc = "text" THEN ParseJson(content.chars) ELSE Return(content.doc)

Response(status_code, content) == [status_code |-> status_code, content |-> content]

-----------------------------------------------------------------------------
(* GrocyApiClient: construction and the four transport operations *)

DEFAULT_PORT_NUMBER == 9192

GrocyApiClientInit(base_url, api_key, port, path, verify_ssl) ==
    [ base_url |-> IF Truthy(path)
                   THEN <<base_url, ":", port, "/", path.v, "/api/">>
                   ELSE <<base_url, ":", port, "/api/">>,
      api_key |-> api_key,
      verify_ssl |-> verify_ssl,
      headers |-> IF api_key = "demo_mode"
                  THEN ("accept" :> "application/json")
                  ELSE ("accept" :> "application/json") @@ ("GROCY-API-KEY" :> api_key) ]

\* urljoin(self._base_url, end_url)
UrlJoin(base_url, end_url) == [base |-> base_url, end |-> end_url]

\* the query string the HTTP library makes of params: for a list value one
\* (key, element) pair per element, in order
EncodeParams(params) ==
    IF params.t = "None" THEN <<>>
    ELSE LET values == params.v["query[]"].v
         IN  [i \in 1..Len(values) |-> <<"query[]", values[i]>>]

\* a request as handed to the HTTP library, with the status it was answered with
Exchange(verb, url, headers, params, data, resp) ==
    [ verb |-> verb, url |-> url, verify |-> client.verify_ssl, headers |-> headers,
      params |-> params, query |-> EncodeParams(params), data |-> data,
      status_code |-> resp.status_code, content |-> resp.content ]

\* the status test of every transport operation
IsFailure_off_by_one(status_code) == status_code > 400

IsFailure_only_4xx(status_code) == status_code >= 400 /\ status_code < 500

IsFailure(status_code) == status_code >= 400

\* the body test of every transport operation, as "is the parsed body truthy"
HasContent_truthy(content) ==
    /\ ContentLen(content) > 0
    /\ Json(content).kind = "return"
    /\ Truthy(Json(content).value)

HasContent(content) == ContentLen(content) > 0

\* the tail shared by the four operations: raise, parse or give None
ResponseResult(resp) ==
    IF IsFailure(resp.status_code) THEN Raise(GrocyError(resp))
    ELSE IF HasContent(resp.content) THEN Json(resp.content)
    ELSE Return(NoneV)

DoGetRequest_no_params(end_url, query_filters, resp) ==
    [ exchange |-> Exchange("GET", UrlJoin(client.base_url, end_url),
                            client.headers, NoneV, NoneV, resp),
      result |-> ResponseResult(resp) ]

DoGetRequest(end_url, query_filters, resp) ==
    LET params == IF Truthy(query_filters)
                  THEN PyDict([name \in {"query[]"} |-> query_filters])
                  ELSE NoneV
    IN  [ exchange |-> Exchange("GET", UrlJoin(client.base_url, end_url),
                                client.headers, params, NoneV, resp),
          result |-> ResponseResult(resp) ]

DoPostRequest(end_url, data, resp) ==
    [ exchange |-> Exchange("POST", UrlJoin(client.base_url, end_url),
                            client.headers, NoneV, [t |-> "json", v |-> data], resp),
      result |-> ResponseResult(resp) ]

DoPutRequest_own_headers(end_url, data, resp) ==
    LET typed == IF data.t = "dict"
                 THEN ("accept" :> "*/*") @@ ("Content-Type" :> "application/json")
                 ELSE ("accept" :> "*/*") @@ ("Content-Type" :> "application/octet-stream")
        sent == IF data.t = "dict" THEN [t |-> "json", v |-> data] ELSE data
    IN  [ exchange |-> Exchange("PUT", UrlJoin(client.base_url, end_url),
                                typed, NoneV, sent, resp),
          result |-> ResponseResult(resp) ]

DoPutRequest_always_json(end_url, data, resp) ==
    LET up_header == [client.headers EXCEPT !["accept"] = "*/*"]
    IN  [ exchange |-> Exchange("PUT", UrlJoin(client.base_url, end_url),
                                up_header @@ ("Content-Type" :> "application/json"),
                                NoneV, [t |-> "json", v |-> data], resp),
          result |-> ResponseResult(resp) ]

DoPutRequest(end_url, data, resp) ==
    LET up_header == [client.headers EXCEPT !["accept"] = "*/*"]
        typed == IF data.t = "dict"
                 THEN up_header @@ ("Content-Type" :> "application/json")
                 ELSE up_header @@ ("Content-Type" :> "application/octet-stream")
        sent == IF data.t = "dict" THEN [t |-> "json", v |-> data] ELSE data
    IN  [ exchange |-> Exchange("PUT", UrlJoin(client.base_url, end_url),
                                typed, NoneV, sent, resp),
          result |-> ResponseResult(resp) ]

\* self._headers after _do_put_request, had up_header been self._headers itself
SharedHeadersAfterPut_aliased(headers, data) ==
    [headers EXCEPT !["accept"] = "*/*"]
        @@ ("Content-Type" :> IF data.t = "dict" THEN "application/json"
                              ELSE "application/octet-stream")

\* self._headers after _do_put_request: up_header is a copy, and the assignments
\* to up_header leave self._headers as it was
SharedHeadersAfterPut(headers, data) == headers

DoDeleteRequest(end_url, resp) ==
    [ exchange |-> Exchange("DELETE", UrlJoin(client.base_url, end_url),
                            client.headers, NoneV, NoneV, resp),
      result |-> ResponseResult(resp) ]

-----------------------------------------------------------------------------
(* Response models: pydantic's validation of a payload against a schema.   *)
(* A payload is a function from wire field names to Python values; a key   *)
(* the server omitted is not in its domain.                                *)

PyFloat(n) == [t |-> "float", v |-> n]
PyDatetime(s) == [t |-> "datetime", v |-> s]
PyEnum(type, s) == [t |-> type, v |-> s]

\* _none_if_empty_str
NoneIfEmptyStr_keeps(value) == value

NoneIfEmptyStr(value) ==
    IF value.t = "str" /\ value.v = "" THEN NoneV ELSE value

\* a field: logical name, wire name (alias), type, whether None is allowed,
\* whether it has a default and which, and whether _field_not_empty_validator
\* is registered on it
Field(name, alias, type, optional, has_default, default, not_empty) ==
    [ name |-> name, alias |-> alias, type |-> type, optional |-> optional,
      has_default |-> has_default, default |-> default, not_empty |-> not_empty ]

\* name: type
Req(name, type) == Field(name, name, type, FALSE, FALSE, NoneV, FALSE)
\* name: type | None = None
Opt(name, type) == Field(name, name, type, TRUE, TRUE, NoneV, FALSE)
\* name: type | None = None, with name_validator = _field_not_empty_validator(name)
OptNotEmpty(name, type) == Field(name, name, type, TRUE, TRUE, NoneV, TRUE)
\* name: type = Field(alias=alias)
ReqAlias(name, alias, type) == Field(name, alias, type, FALSE, FALSE, NoneV, FALSE)

TransactionType == {"purchase", "consume", "inventory-correction", "product-opened"}

\* the strings of the model that int() and float() accept, and their values
IntStrings == ("0" :> 0) @@ ("1" :> 1) @@ ("3" :> 3) @@ ("7" :> 7)

\* the strings of the model that parse as a date and time
DateStrings == {"2024-05-01 10:00:00", "2024-05-02 11:30:00"}

ValidationError == PyError("ValidationError")

\* an Enum-typed field: a member, or the value of a member
ValidateTransactionType_passthrough(value) == Return(value)

ValidateTransactionType(value) ==
    IF value.t = "TransactionType" THEN Return(value)
    ELSE IF value.t = "str" /\ value.v \in TransactionType
        THEN Return(PyEnum("TransactionType", value.v))
    ELSE Raise(ValidationError)

\* the scalar types, in pydantic's lax mode
ValidateScalar(type, value) ==
    CASE type = "any" -> Return(value)
      [] type = "str" ->
            IF value.t = "str" THEN Return(value) ELSE Raise(ValidationError)
      [] type = "int" ->
            IF value.t = "int" THEN Return(value)
            ELSE IF value.t = "bool" THEN Return(PyInt(IF value.v THEN 1 ELSE 0))
            ELSE IF value.t = "float" THEN Return(PyInt(value.v))
            ELSE IF value.t = "str" /\ value.v \in DOMAIN IntStrings
                THEN Return(PyInt(IntStrings[value.v]))
            ELSE Raise(ValidationError)
      [] type = "float" ->
            IF value.t = "float" THEN Return(value)
            ELSE IF value.t = "int" THEN Return(PyFloat(value.v))
            ELSE IF value.t = "bool" THEN Return(PyFloat(IF value.v THEN 1 ELSE 0))
            ELSE IF value.t = "str" /\ value.v \in DOMAIN IntStrings
                THEN Return(PyFloat(IntStrings[value.v]))
            ELSE Raise(ValidationError)
      [] type = "bool" ->
            IF value.t = "bool" THEN Return(value)
            ELSE IF value.t \in {"int", "float"} /\ value.v \in {0, 1}
                THEN Return(PyBool(value.v = 1))
            ELSE IF value.t = "str" /\ value.v \in {"0", "1"}
                THEN Return(PyBool(value.v = "1"))
            ELSE Raise(ValidationError)
      [] type = "datetime" ->
            IF value.t = "datetime" THEN Return(value)
            ELSE IF value.t = "str" /\ value.v \in DateStrings
                THEN Return(PyDatetime(value.v))
            ELSE Raise(ValidationError)
      [] type = "dict" ->
            IF value.t = "dict" THEN Return(value) ELSE Raise(ValidationError)
      [] type = "TransactionType" -> ValidateTransactionType(value)

ScalarTypes == {"any", "str", "int", "float", "bool", "datetime", "dict", "TransactionType"}

\* name: type | None = default
OptDefault(name, type, default) == Field(name, name, type, TRUE, TRUE, default, FALSE)
\* name: type = default
ReqDefault(name, type, default) == Field(name, name, type, FALSE, TRUE, default, FALSE)

ShoppingListItem ==
    << Req("id", "int"), Opt("product_id", "int"), Opt("note", "str"),
       Opt("amount", "float"), Req("row_created_timestamp", "datetime"),
       Req("shopping_list_id", "int"), Req("done", "int") >>

RecipeDetailsResponse ==
    << Opt("id", "int"), Req("name", "str"), Opt("description", "str"),
       Req("base_servings", "int"), Req("desired_servings", "int"),
       Opt("picture_file_name", "str"), Req("row_created_timestamp", "datetime"),
       Opt("userfields", "dict") >>

ProductData ==
    << Req("id", "int"), Req("name", "str"), Opt("description", "str"),
       OptNotEmpty("location_id", "int"), Opt("shopping_location_id", "int"),
       OptNotEmpty("product_group_id", "int"), Req("qu_id_stock", "int"),
       Req("qu_id_purchase", "int"), Opt("picture_file_name", "str"),
       OptDefault("allow_partial_units_in_stock", "bool", PyBool(FALSE)),
       Req("row_created_timestamp", "datetime"), Opt("min_stock_amount", "float"),
       Req("default_best_before_days", "int") >>

ChoreData ==
    << Req("id", "int"), Req("name", "str"), Opt("description", "str"),
       Req("period_type", "str"), Opt("period_config", "str"),
       OptDefault("period_days", "int", PyInt(0)), Req("track_date_only", "bool"),
       Req("rollover", "bool"), Opt("assignment_type", "str"),
       Opt("assignment_config", "str"),
       OptNotEmpty("next_execution_assigned_to_user_id", "int"),
       Opt("userfields", "dict") >>

UserDto ==
    << Req("id", "int"), Req("username", "str"), Opt("first_name", "str"),
       Opt("last_name", "str"), Opt("display_name", "str") >>

ChoreLogResponse ==
    << Req("id", "int"), Req("chore_id", "int"), Req("tracked_time", "datetime"),
       Req("done_by_user_id", "int"), Req("row_created_timestamp", "datetime"),
       Req("undone", "bool"), Opt("undone_timestamp", "datetime"),
       Req("skipped", "bool"), Opt("scheduled_execution_time", "datetime"),
       Opt("userfields", "dict") >>

ChoreDetailsResponse ==
    << Req("chore", "ChoreData"), Opt("last_tracked", "datetime"),
       Opt("next_estimated_execution_time", "datetime"),
       ReqDefault("track_count", "int", PyInt(0)),
       Opt("next_execution_assigned_user", "UserDto"), Opt("last_done_by", "UserDto") >>

TaskCategoryDto ==
    << Req("id", "int"), Req("name", "str"), Opt("description", "str"),
       Req("row_created_timestamp", "datetime") >>

TaskResponse ==
    << Req("id", "int"), Req("name", "str"), Opt("description", "str"),
       OptNotEmpty("due_date", "datetime"), Req("done", "int"),
       Opt("done_timestamp", "datetime"), OptNotEmpty("category_id", "int"),
       Opt("category", "TaskCategoryDto"), OptNotEmpty("assigned_to_user_id", "int"),
       Opt("assigned_to_user", "UserDto"), Opt("userfields", "dict") >>

EquipmentData ==
    << Req("id", "int"), Req("name", "str"), Opt("description", "str"),
       Opt("instruction_manual_file_name", "str"),
       ReqAlias("created_timestamp", "row_created_timestamp", "datetime"),
       Opt("userfields", "dict") >>

EquipmentDetailsResponse == << Req("equipment", "EquipmentData") >>

MealPlanSectionResponse ==
    << Opt("id", "int"), Opt("name", "str"), OptNotEmpty("sort_number", "int"),
       Req("row_created_timestamp", "datetime") >>

StockLogResponse ==
    << Req("id", "int"), Req("product_id", "int"), Req("amount", "float"),
       Req("best_before_date", "datetime"), Req("purchased_date", "datetime"),
       Opt("used_date", "datetime"), ReqDefault("spoiled", "bool", PyBool(FALSE)),
       Req("stock_id", "str"), Req("transaction_id", "str"),
       Req("transaction_type", "TransactionType") >>

StockBookingResponse ==
    << Req("id", "int"), Req("product_id", "int"), Req("amount", "float"),
       Opt("best_before_date", "datetime"), Opt("purchased_date", "datetime"),
       Req("stock_id", "str"), Req("transaction_id", "str"),
       Req("transaction_type", "str"), Opt("row_created_timestamp", "datetime") >>

CurrentStockResponse ==
    << Req("product_id", "int"), Req("amount", "float"),
       Req("best_before_date", "datetime"), Req("amount_opened", "float"),
       Req("amount_aggregated", "float"), Req("amount_opened_aggregated", "float"),
       Req("is_aggregated_amount", "bool"), Req("product", "ProductData") >>

SystemConfigDto ==
    << ReqAlias("username", "USER_USERNAME", "str"),
       ReqAlias("base_path", "BASE_PATH", "str"),
       ReqAlias("base_url", "BASE_URL", "str"), ReqAlias("mode", "MODE", "str"),
       ReqAlias("default_locale", "DEFAULT_LOCALE", "str"),
       ReqAlias("locale", "LOCALE", "str"), ReqAlias("currency", "CURRENCY", "str"),
       Req("feature_flags", "dict") >>

Schema(model) ==
    CASE model = "ShoppingListItem" -> ShoppingListItem
      [] model = "RecipeDetailsResponse" -> RecipeDetailsResponse
      [] model = "ProductData" -> ProductData
      [] model = "ChoreData" -> ChoreData
      [] model = "UserDto" -> UserDto
      [] model = "ChoreLogResponse" -> ChoreLogResponse
      [] model = "ChoreDetailsResponse" -> ChoreDetailsResponse
      [] model = "TaskCategoryDto" -> TaskCategoryDto
      [] model = "TaskResponse" -> TaskResponse
      [] model = "EquipmentData" -> EquipmentData
      [] model = "EquipmentDetailsResponse" -> EquipmentDetailsResponse
      [] model = "MealPlanSectionResponse" -> MealPlanSectionResponse
      [] model = "StockLogResponse" -> StockLogResponse
      [] model = "StockBookingResponse" -> StockBookingResponse
      [] model = "SystemConfigDto" -> SystemConfigDto
      [] model = "CurrentStockResponse" -> CurrentStockResponse

\* str.startswith
StartsWith(string, prefix) ==
    /\ Len(string) >= Len(prefix)
    /\ SubSeq(string, 1, Len(prefix)) = prefix

\* the loop of feature_flags_root_validator over data.items()
RECURSIVE CollectFeatureFlags(_, _)
CollectFeatureFlags_truthy(data, fields) ==
    [f \in {g \in fields : StartsWith(g, "FEATURE_FLAG_") /\ Truthy(data[g])} |-> data[f]]

CollectFeatureFlags(data, fields) ==
    IF fields = {} THEN <<>>
    ELSE LET field == CHOOSE f \in fields : TRUE
             rest == CollectFeatureFlags(data, fields \ {field})
         IN  IF StartsWith(field, "FEATURE_FLAG_")
             THEN (field :> data[field]) @@ rest
             ELSE rest

\* SystemConfigDto.feature_flags_root_validator (mode="before")
FeatureFlagsRootValidator(data) ==
    ("feature_flags" :> PyDict(CollectFeatureFlags(data, DOMAIN data))) @@ data

\* the model validators that run before the fields are validated
BeforeValidators(model, data) ==
    IF model = "SystemConfigDto" THEN FeatureFlagsRootValidator(data) ELSE data

FieldNames(schema) == {schema[i].name : i \in DOMAIN schema}

FieldNamed(schema, name) == schema[CHOOSE i \in DOMAIN schema : schema[i].name = name]

\* a field the input does not hold, were every field given a default
MissingField_lenient(f) == Return(f.default)

\* a field the input does not hold: its default, or "Field required"
MissingField(f) == IF f.has_default THEN Return(f.default) ELSE Raise(ValidationError)

\* Model(**data): every field validated, any failure fails the whole decode
RECURSIVE DecodeModel(_, _)
RECURSIVE DecodeField(_, _)
DecodeField(f, data) ==
    IF f.alias \notin DOMAIN data
    THEN MissingField(f)
    ELSE LET value == IF f.not_empty THEN NoneIfEmptyStr(data[f.alias])
                      ELSE data[f.alias]
         IN  IF value.t = "None"
             THEN IF f.optional \/ f.type = "any"
                  THEN Return(NoneV) ELSE Raise(ValidationError)
             ELSE IF f.type \in ScalarTypes THEN ValidateScalar(f.type, value)
             ELSE IF value.t = f.type THEN Return(value)
             ELSE IF value.t = "dict" THEN DecodeModel(f.type, value.v)
             ELSE Raise(ValidationError)

DecodeModel(model, data) ==
    LET built(names, decoded) ==
            IF \E n \in names : decoded[n].kind = "raise"
            THEN Raise(ValidationError)
            ELSE Return([t |-> model, v |-> [n \in names |-> decoded[n].value]])
        validated(schema, input) ==
            built(FieldNames(schema),
                  [n \in FieldNames(schema) |-> DecodeField(FieldNamed(schema, n), input)])
    IN  validated(Schema(model), BeforeValidators(model, data))

-----------------------------------------------------------------------------
(* Payloads to decode: for each response model a payload the server sends  *)
(* for it, with up to MaxVaried of its fields left out or replaced.        *)

MaxVaried == 1

Models ==
    { "ShoppingListItem", "RecipeDetailsResponse", "ProductData", "ChoreData", "UserDto",
      "ChoreLogResponse", "ChoreDetailsResponse", "TaskCategoryDto", "TaskResponse",
      "EquipmentData", "EquipmentDetailsResponse", "MealPlanSectionResponse",
      "StockLogResponse", "StockBookingResponse" }

PeriodType ==
    { "manually", "dynamic-regular", "daily", "weekly", "monthly", "yearly",
      "adaptive", "hourly" }

AssignmentType ==
    {"no-assignment", "who-least-did-first", "random", "in-alphabetical-order"}

Missing == [t |-> "Missing", v |-> <<>>]

TestValues ==
    { Missing, NoneV, PyStr(""), PyStr("abc"), PyStr("7"), PyInt(3), PyInt(0),
      PyBool(TRUE), PyStr("2024-05-01 10:00:00"), PyStr("consume"),
      PyStr("transfer_to"), PyStr("hourly"), EmptyDict }

RECURSIVE SamplePayload(_)
SampleValue(f) ==
    CASE f.name = "period_type" -> PyStr("weekly")
      [] f.name = "assignment_type" -> PyStr("random")
      [] f.type = "TransactionType" \/ f.name = "transaction_type" -> PyStr("purchase")
      [] f.type = "int" -> PyInt(3)
      [] f.type = "float" -> PyInt(7)
      [] f.type = "str" -> PyStr("abc")
      [] f.type = "bool" -> PyInt(1)
      [] f.type = "datetime" -> PyStr("2024-05-02 11:30:00")
      [] f.type = "dict" -> NoneV
      [] OTHER -> PyDict(SamplePayload(f.type))

Aliases(schema) == {schema[i].alias : i \in DOMAIN schema}

FieldAliased(schema, alias) == schema[CHOOSE i \in DOMAIN schema : schema[i].alias = alias]

SamplePayload(model) ==
    LET sample(schema) == [a \in Aliases(schema) |-> SampleValue(FieldAliased(schema, a))]
    IN  sample(Schema(model))

\* the sample payload with the fields of `varied` replaced (Missing: left out)
Vary(model, varied) ==
    LET replaced(sample) ==
            [ a \in {b \in DOMAIN sample : b \notin DOMAIN varied \/ varied[b].t # "Missing"} |->
                IF a \in DOMAIN varied THEN varied[a] ELSE sample[a] ]
    IN  replaced(SamplePayload(model))

Variations(model) ==
    UNION { [F -> TestValues] :
            F \in {G \in SUBSET Aliases(Schema(model)) : Cardinality(G) <= MaxVaried} }

ExtraConfigKeys ==
    { "FEATURE_FLAG_A", "FEATURE_FLAG_B", "OTHER", "FEATURE_FLAG", "XFEATURE_FLAG_C",
      "feature_flags" }

ConfigValues == {PyBool(TRUE), PyBool(FALSE), PyInt(1)}

\* what the server sends for the declared settings: feature_flags is not one
SystemConfigSettings ==
    LET settings(sample) == [a \in DOMAIN sample \ {"feature_flags"} |-> sample[a]]
    IN  settings(SamplePayload("SystemConfigDto"))

SystemConfigPayloads ==
    UNION { { extra @@ SystemConfigSettings : extra \in [K -> ConfigValues] } :
            K \in SUBSET ExtraConfigKeys }

InitDecode ==
    /\ client = GrocyApiClientInit("https://example.com", "secret",
                                   DEFAULT_PORT_NUMBER, NoneV, TRUE)
    /\ srv = [users |-> <<>>, chores_log |-> <<>>, equipment |-> <<>>, failing |-> <<>>]
    /\ call = [op |-> "none"]
    /\ wire = <<>>
    /\ outcome = NoOutcome
    /\ grocy = NoFacade

\* Model(**data) for a response model
Decode ==
    /\ call.op = "none"
    /\ \E model \in Models :
        \E varied \in Variations(model) :
            /\ call' = [op |-> "decode", model |-> model, data |-> Vary(model, varied)]
            /\ wire' = <<>>
            /\ outcome' = DecodeModel(model, Vary(model, varied))
            /\ UNCHANGED <<client, srv, grocy>>

\* SystemConfigDto(**parsed_json)
DecodeSystemConfig ==
    /\ call.op = "none"
    /\ \E data \in SystemConfigPayloads :
        /\ call' = [op |-> "decode", model |-> "SystemConfigDto", data |-> data]
        /\ wire' = <<>>
        /\ outcome' = DecodeModel("SystemConfigDto", data)
        /\ UNCHANGED <<client, srv, grocy>>

\* SystemConfigDto(**parsed_json), the server leaving out one of the settings
DecodeSystemConfigWithout ==
    /\ call.op = "none"
    /\ \E left_out \in DOMAIN SystemConfigSettings :
        \E data \in {[a \in DOMAIN SystemConfigSettings \ {left_out} |->
                          SystemConfigSettings[a]]} :
            /\ call' = [op |-> "decode", model |-> "SystemConfigDto", data |-> data]
            /\ wire' = <<>>
            /\ outcome' = DecodeModel("SystemConfigDto", data)
            /\ UNCHANGED <<client, srv, grocy>>

\* the caller takes the result
TakeDecoded ==
    /\ call.op = "decode"
    /\ call' = [op |-> "none"]
    /\ wire' = <<>>
    /\ outcome' = NoOutcome
    /\ UNCHANGED <<client, srv, grocy>>

NextDecode == Decode \/ DecodeSystemConfig \/ DecodeSystemConfigWithout \/ TakeDecoded

SpecDecode == InitDecode /\ [][NextDecode]_vars

-----------------------------------------------------------------------------
(* Claims about the response models, under SpecDecode *)

IsEmptyStr(value) == value.t = "str" /\ value.v = ""

Sent(alias) == alias \in DOMAIN call.data

\* every field of the decoded model but f validates
OthersValid(f) ==
    \A i \in DOMAIN Schema(call.model) :
        Schema(call.model)[i].name # f.name =>
            DecodeField(Schema(call.model)[i],
                        BeforeValidators(call.model, call.data)).kind = "return"

SentStr(alias) == Sent(alias) /\ call.data[alias].t = "str"

C10_FeatureFlagsAreThePrefixedFields ==
    (call.op = "decode" /\ call.model = "SystemConfigDto" /\ outcome.kind = "return") =>
        LET flags == outcome.value.v["feature_flags"].v
        IN  /\ DOMAIN flags = {k \in DOMAIN call.data : StartsWith(k, "FEATURE_FLAG_")}
            /\ \A k \in DOMAIN flags : flags[k] = call.data[k]

C10_Witness ==
    /\ call.op = "decode"
    /\ call.model = "SystemConfigDto"
    /\ DOMAIN call.data \cap ExtraConfigKeys = {"FEATURE_FLAG_A", "FEATURE_FLAG_B", "OTHER"}
    /\ call.data["FEATURE_FLAG_A"] = PyBool(TRUE)
    /\ call.data["FEATURE_FLAG_B"] = PyBool(FALSE)
    /\ call.data["OTHER"] = PyInt(1)
    /\ outcome.kind = "return"
    /\ DOMAIN outcome.value.v["feature_flags"].v = {"FEATURE_FLAG_A", "FEATURE_FLAG_B"}


\* the fields a model's before-validator writes into the input, sent or not
ComputedFields(model) == IF model = "SystemConfigDto" THEN {"feature_flags"} ELSE {}

\* C18 as claimed: for every response model, a payload that lacks a required
\* field (one declared without a default) fails to decode and produces no
\* object, and a payload that lacks a field declared with a default decodes to
\* that field at its default.
C18_EveryMissingRequiredFieldFails ==
    call.op = "decode" =>
        \A i \in DOMAIN Schema(call.model) :
            LET f == Schema(call.model)[i]
            IN  ~Sent(f.alias) =>
                    /\ ~f.has_default => outcome = Raise(ValidationError)
                    /\ f.has_default =>
                        /\ OthersValid(f) => outcome.kind = "return"
                        /\ outcome.kind = "return" => outcome.value.v[f.name] = f.default

\* C18 as amended: the same, for every required field but the one a model's
\* before-validator computes (SystemConfigDto.feature_flags), which decodes
\* whether or not the payload holds it.
C18_MissingRequiredFieldFailsUnlessComputed ==
    call.op = "decode" =>
        \A i \in DOMAIN Schema(call.model) :
            LET f == Schema(call.model)[i]
            IN  ~Sent(f.alias) =>
                    /\ (~f.has_default /\ f.name \notin ComputedFields(call.model)) =>
                        outcome = Raise(ValidationError)
                    /\ (~f.has_default /\ f.name \in ComputedFields(call.model)) =>
                        /\ OthersValid(f) => outcome.kind = "return"
                        /\ outcome.kind = "return" => outcome.value.v[f.name].t = "dict"
                    /\ f.has_default =>
                        /\ OthersValid(f) => outcome.kind = "return"
                        /\ outcome.kind = "return" => outcome.value.v[f.name] = f.default

\* a chore log without its required chore_id is no object
C18_Witness ==
    /\ call.op = "decode"
    /\ call.model = "ChoreLogResponse"
    /\ ~Sent("chore_id")
    /\ Sent("id")
    /\ outcome = Raise(ValidationError)
-----------------------------------------------------------------------------
(* The transport operations called directly, against any response *)

StatusCodes == {200, 204, 304, 399, 400, 404, 500}

RawBodies ==
    { <<>>, <<"[", "]">>, <<"{", "}">>, <<"n", "u", "l", "l">>, <<"0">>, <<"7">>,
      <<"[", "1", "]">>, <<"[", "1", ",", "2", "]">>, <<"[", "1", ",", "]">>, <<"x">> }

RawResponses == {Response(s, Text(b)) : s \in StatusCodes, b \in RawBodies}

EndUrls == {[path |-> "objects/chores_log", id |-> 0], [path |-> "objects/equipment", id |-> 1]}

QueryFilterArgs ==
    {NoneV, PyList(<<>>), PyList(<<"undone=1">>), PyList(<<"name=x", "undone=1">>)}

PostBodies == {NoneV, EmptyDict, PyDict([new_amount |-> 10])}

PutBodies ==
    {EmptyDict, PyDict([done |-> 1]), PyBytes(<<>>), PyBytes(<<255, 216>>), PyStr("abc")}

ApiKeys == {"demo_mode", "DEMO_MODE", "secret"}

Paths == {NoneV, PyStr(""), PyStr("grocy")}

Clients ==
    { GrocyApiClientInit("https://example.com", k, DEFAULT_PORT_NUMBER, p, v) :
        k \in ApiKeys, p \in Paths, v \in BOOLEAN }

TransportOps == {"_do_get_request", "_do_post_request", "_do_put_request", "_do_delete_request"}

NoServer ==
    [ users |-> <<>>, chores_log |-> <<>>, equipment |-> <<>>, stock_log |-> <<>>,
      stock |-> <<>>, empty |-> <<>>, failing |-> <<>> ]

InitTransport ==
    /\ client \in Clients
    /\ srv = NoServer
    /\ call = [op |-> "none"]
    /\ wire = <<>>
    /\ outcome = NoOutcome
    /\ grocy = NoFacade

\* the library is synchronous: a call starts when the one before has ended
Idle == call.op = "none"

\* the caller takes the result of the call that ended; the next call meets
\* whatever the server holds by then
TakeResult ==
    /\ ~Idle
    /\ call' = [op |-> "none"]
    /\ wire' = <<>>
    /\ outcome' = NoOutcome
    /\ srv' = NoServer
    /\ UNCHANGED <<client, grocy>>

\* the requests of one operation, were a failed request sent again
RequestsMade_resend_failed(r) ==
    IF r.exchange.status_code >= 400 THEN <<r.exchange, r.exchange>> ELSE <<r.exchange>>

\* the requests of one operation: its one call of requests.get, .post, .put or
\* .delete, made once whatever the response
RequestsMade(r) == <<r.exchange>>

GetRequest ==
    /\ Idle
    /\ \E end_url \in EndUrls, query_filters \in QueryFilterArgs, resp \in RawResponses :
        LET r == DoGetRequest(end_url, query_filters, resp)
           IN  /\ call' = [op |-> "_do_get_request", end_url |-> end_url,
                           query_filters |-> query_filters]
               /\ wire' = RequestsMade(r)
               /\ outcome' = r.result
               /\ UNCHANGED <<client, srv, grocy>>

PostRequest ==
    /\ Idle
    /\ \E end_url \in EndUrls, data \in PostBodies, resp \in RawResponses :
        LET r == DoPostRequest(end_url, data, resp)
           IN  /\ call' = [op |-> "_do_post_request", end_url |-> end_url, data |-> data]
               /\ wire' = RequestsMade(r)
               /\ outcome' = r.result
               /\ UNCHANGED <<client, srv, grocy>>

PutRequest ==
    /\ Idle
    /\ \E end_url \in EndUrls, data \in PutBodies, resp \in RawResponses :
        LET r == DoPutRequest(end_url, data, resp)
           IN  /\ call' = [op |-> "_do_put_request", end_url |-> end_url, data |-> data]
               /\ wire' = RequestsMade(r)
               /\ outcome' = r.result
               /\ client' = [client EXCEPT
                                !.headers = SharedHeadersAfterPut(client.headers, data)]
               /\ UNCHANGED <<srv, grocy>>

DeleteRequest ==
    /\ Idle
    /\ \E end_url \in EndUrls, resp \in RawResponses :
        LET r == DoDeleteRequest(end_url, resp)
           IN  /\ call' = [op |-> "_do_delete_request", end_url |-> end_url]
               /\ wire' = RequestsMade(r)
               /\ outcome' = r.result
               /\ UNCHANGED <<client, srv, grocy>>

NextTransport == GetRequest \/ PostRequest \/ PutRequest \/ DeleteRequest \/ TakeResult

SpecTransport == InitTransport /\ [][NextTransport]_vars

-----------------------------------------------------------------------------
(* Claims about the transport operations, under SpecTransport *)

LastExchange == wire[Len(wire)]

\* C1: for each of GET, POST, PUT and DELETE, a response status >= 400 makes the
\* call raise GrocyError carrying that response's status code and body, with no
\* JSON result returned; a status < 400 never raises GrocyError.
C1_StatusDecidesGrocyError ==
    call.op \in TransportOps =>
        /\ LastExchange.status_code >= 400 =>
            /\ outcome.kind = "raise"
            /\ outcome.value.t = "NoValue"
            /\ outcome.error.type = "GrocyError"
            /\ outcome.error.status_code = LastExchange.status_code
            /\ outcome.error.body = LastExchange.content
        /\ LastExchange.status_code < 400 => outcome.error.type # "GrocyError"

C1_Witness ==
    /\ call.op = "_do_put_request"
    /\ LastExchange.status_code = 400
    /\ LastExchange.content.chars = <<"[", "1", "]">>
    /\ outcome.kind = "raise"

\* C7: on a success status, an empty body gives None, the body [] gives the empty
\* list and the body {} gives the empty dict, and neither of the two is None.
C7_EmptyBodyIsNoneEmptyJsonIsNot ==
    (call.op \in TransportOps /\ LastExchange.status_code < 400) =>
        /\ LastExchange.content.chars = <<>> => outcome = Return(NoneV)
        /\ LastExchange.content.chars = <<"[", "]">> =>
            /\ outcome.kind = "return"
            /\ outcome.value.t = "list"
            /\ outcome.value.v = <<>>
        /\ LastExchange.content.chars = <<"{", "}">> =>
            /\ outcome.kind = "return"
            /\ outcome.value.t = "dict"
            /\ DOMAIN outcome.value.v = {}

C7_Witness ==
    /\ call.op = "_do_delete_request"
    /\ LastExchange.status_code = 200
    /\ LastExchange.content.chars = <<"[", "]">>
    /\ outcome.kind = "return"
    /\ outcome.value.t = "list"

\* the verb of a transport operation
VerbOf(op) ==
    CASE op = "_do_get_request" -> "GET"
      [] op = "_do_post_request" -> "POST"
      [] op = "_do_put_request" -> "PUT"
      [] op = "_do_delete_request" -> "DELETE"

\* C24: every transport operation sends exactly one HTTP request per
\* invocation, of its verb to its URL, whether the response is a success or a
\* failure: a failed request is not sent again.
C24_OneRequestPerOperation ==
    call.op \in TransportOps =>
        /\ Len(wire) = 1
        /\ wire[1].verb = VerbOf(call.op)
        /\ wire[1].url = UrlJoin(client.base_url, call.end_url)

C24_Witness ==
    /\ call.op = "_do_get_request"
    /\ Len(wire) = 1
    /\ wire[1].status_code = 500
    /\ outcome.kind = "raise"
    /\ outcome.error.type = "GrocyError"

\* the client is as its constructor made it, and a request that is no PUT
\* carries the shared headers
TransportConfigurationAsConstructed ==
    /\ client \in Clients
    /\ call.op \in TransportOps =>
        \A i \in DOMAIN wire : wire[i].verb # "PUT" =>
            /\ wire[i].headers = client.headers
            /\ "Content-Type" \notin DOMAIN wire[i].headers
            /\ wire[i].headers["accept"] = "application/json"
            /\ wire[i].verify = client.verify_ssl

TransportConfigurationKept == client' = client

\* C25: after construction the base URL, the credential, the shared headers
\* and the verify flag are unchanged by every GET, POST, PUT and DELETE,
\* successful or failing; a PUT sets accept and Content-Type for its own request
\* and the shared headers that the GET, POST and DELETE requests carry stay as
\* constructed.
C25_TransportConfigurationIsNeverChanged ==
    /\ []TransportConfigurationAsConstructed
    /\ [][TransportConfigurationKept]_vars

\* a failed PUT that sent its own Content-Type and left the shared headers alone
C25_Witness ==
    /\ call.op = "_do_put_request"
    /\ wire[1].status_code >= 400
    /\ wire[1].headers["Content-Type"] = "application/json"
    /\ wire[1].headers["accept"] = "*/*"
    /\ "Content-Type" \notin DOMAIN client.headers
    /\ client.headers["accept"] = "application/json"

\* C13: with the credential "demo_mode" no request of any verb carries the
\* GROCY-API-KEY header; with any other credential every request of every verb,
\* PUT included, carries GROCY-API-KEY with that credential.
C13_ApiKeyHeaderUnlessDemoMode ==
    call.op \in TransportOps =>
        \A i \in DOMAIN wire :
            IF client.api_key = "demo_mode"
            THEN "GROCY-API-KEY" \notin DOMAIN wire[i].headers
            ELSE /\ "GROCY-API-KEY" \in DOMAIN wire[i].headers
                 /\ wire[i].headers["GROCY-API-KEY"] = client.api_key

C13_Witness ==
    /\ call.op = "_do_put_request"
    /\ client.api_key = "DEMO_MODE"
    /\ LastExchange.headers["GROCY-API-KEY"] = "DEMO_MODE"
    /\ LastExchange.headers["Content-Type"] = "application/octet-stream"

\* C14: a GET with a non-empty filter list sends one query[] parameter per
\* filter, in the given order and as given; a GET with no filter list or an
\* empty one sends no parameter at all.
C14_FiltersAreSentAsRepeatedQueryParameters ==
    call.op = "_do_get_request" =>
        IF call.query_filters.t = "list" /\ Len(call.query_filters.v) > 0
        THEN /\ Len(LastExchange.query) = Len(call.query_filters.v)
             /\ \A i \in DOMAIN call.query_filters.v :
                 LastExchange.query[i] = <<"query[]", call.query_filters.v[i]>>
        ELSE /\ LastExchange.query = <<>>
             /\ LastExchange.params = NoneV

C14_Witness ==
    /\ call.op = "_do_get_request"
    /\ call.query_filters = PyList(<<"name=x", "undone=1">>)
    /\ LastExchange.query = << <<"query[]", "name=x">>, <<"query[]", "undone=1">> >>

\* C15: a PUT with a dict body is sent JSON-encoded with Content-Type
\* application/json; a PUT with any other body is sent as it is with
\* Content-Type application/octet-stream.
C15_PutContentTypeFollowsTheBody ==
    call.op = "_do_put_request" =>
        IF call.data.t = "dict"
        THEN /\ LastExchange.data = [t |-> "json", v |-> call.data]
             /\ LastExchange.headers["Content-Type"] = "application/json"
        ELSE /\ LastExchange.data = call.data
             /\ LastExchange.headers["Content-Type"] = "application/octet-stream"

C15_Witness ==
    /\ call.op = "_do_put_request"
    /\ call.data = PyBytes(<<255, 216>>)
    /\ LastExchange.data = PyBytes(<<255, 216>>)
    /\ LastExchange.headers["Content-Type"] = "application/octet-stream"

-----------------------------------------------------------------------------
(* The server: an external collaborator.  Its data is what the rows below  *)
(* say; it answers a request for a URL it was told to fail with that       *)
(* status, a list request with an unknown filter with 500, and every other *)
(* request with 200 and the JSON of the data asked for.                    *)

MaxItems == 2

Url(path, id) == [path |-> path, id |-> id]

UserRows ==
    { [id |-> 1, username |-> "admin"], [id |-> 4, username |-> "demo"] }

ChoreLogRows ==
    { [id |-> 3, chore_id |-> 3, done_by_user_id |-> 4, undone |-> 0],
      [id |-> 6, chore_id |-> 6, done_by_user_id |-> 4, undone |-> 0],
      [id |-> 7, chore_id |-> 3, done_by_user_id |-> 1, undone |-> 1] }

EquipmentRows ==
    { [id |-> 1, name |-> "Coffee machine", manual |-> PyStr("loremipsum.pdf")],
      [id |-> 2, name |-> "Dishwasher", manual |-> NoneV],
      [id |-> 5, name |-> "Mixer", manual |-> PyStr("")] }

\* the sequences of at most n different elements of S
Arrangements(S, n) ==
    UNION { {q \in [1..k -> S] : \A i, j \in 1..k : i # j => q[i] # q[j]} : k \in 0..n }

FailStatuses == {404}

Failing(urls) ==
    {<<>>} \cup {<<[url |-> u, status_code |-> c]>> : u \in urls, c \in FailStatuses}

UserPayload(row) ==
    [ id |-> PyInt(row.id), username |-> PyStr(row.username), first_name |-> NoneV,
      last_name |-> PyStr(""), display_name |-> PyStr(row.username) ]

ChoreLogPayload(row) ==
    [ id |-> PyInt(row.id), chore_id |-> PyInt(row.chore_id),
      tracked_time |-> PyStr("2024-05-01 10:00:00"),
      done_by_user_id |-> PyInt(row.done_by_user_id),
      row_created_timestamp |-> PyStr("2024-05-02 11:30:00"),
      undone |-> PyInt(row.undone),
      undone_timestamp |-> IF row.undone = 1 THEN PyStr("2024-05-02 11:30:00") ELSE NoneV,
      skipped |-> PyInt(0), scheduled_execution_time |-> NoneV ]

ChoreDetailsPayload(chore_id) ==
    [SamplePayload("ChoreDetailsResponse") EXCEPT
        !["chore"] = PyDict([SamplePayload("ChoreData") EXCEPT !["id"] = PyInt(chore_id)])]

EquipmentPayload(row) ==
    [ id |-> PyInt(row.id), name |-> PyStr(row.name), description |-> NoneV,
      instruction_manual_file_name |-> row.manual,
      row_created_timestamp |-> PyStr("2024-05-01 10:00:00"),
      userfields |-> IF row.id = 1 THEN PyDict([custom_field |-> PyStr("custom_value")])
                     ELSE NoneV ]

\* the stock log entries a booking is answered with; the last one names a
\* transaction type the client does not know
StockLogRows ==
    { [id |-> 1, product_id |-> 5, transaction_type |-> "inventory-correction"],
      [id |-> 2, product_id |-> 5, transaction_type |-> "consume"],
      [id |-> 3, product_id |-> 7, transaction_type |-> "stock-edit-new"] }

StockLogPayload(row) ==
    [SamplePayload("StockLogResponse") EXCEPT
        !["id"] = PyInt(row.id), !["product_id"] = PyInt(row.product_id),
        !["transaction_type"] = PyStr(row.transaction_type)]

ProductDetailsPayload(product_id) ==
    [ product |-> PyDict([SamplePayload("ProductData") EXCEPT !["id"] = PyInt(product_id)]),
      stock_amount |-> PyInt(10), stock_amount_opened |-> PyInt(0) ]

\* what the server holds as current stock: the third row has more opened than
\* there is
StockRows ==
    { [product_id |-> 5, amount_aggregated |-> 3, amount_opened_aggregated |-> 1],
      [product_id |-> 7, amount_aggregated |-> 2, amount_opened_aggregated |-> 2],
      [product_id |-> 9, amount_aggregated |-> 1, amount_opened_aggregated |-> 4] }

CurrentStockPayload(row) ==
    [ product_id |-> PyInt(row.product_id), amount |-> PyInt(row.amount_aggregated),
      best_before_date |-> PyStr("2024-05-01 10:00:00"),
      amount_opened |-> PyInt(row.amount_opened_aggregated),
      amount_aggregated |-> PyInt(row.amount_aggregated),
      amount_opened_aggregated |-> PyInt(row.amount_opened_aggregated),
      is_aggregated_amount |-> PyInt(0),
      product |-> PyDict([SamplePayload("ProductData") EXCEPT
                             !["id"] = PyInt(row.product_id)]) ]

UserfieldsPayload(id) == IF id = 3 THEN PyDict([note |-> PyStr("weekly round")]) ELSE EmptyDict

\* the filter expressions the server knows for a list URL; any other is invalid
KnownFilters(path) ==
    CASE path = "objects/chores_log" -> {"undone=1"}
      [] path = "objects/equipment" -> {"name=Coffee machine"}
      [] OTHER -> {}

Matches(row, filter) ==
    CASE filter = "undone=1" -> row.undone = 1
      [] filter = "name=Coffee machine" -> row.name = "Coffee machine"

Filtered(rows, filters) ==
    SelectSeq(rows, LAMBDA row : \A i \in DOMAIN filters : Matches(row, filters[i]))

ErrorBody == Text(<<"{", "e", "}">>)

RowsAt(s, path) == IF path = "objects/chores_log" THEN s.chores_log ELSE s.equipment

RowPayload(path, row) ==
    IF path = "objects/chores_log" THEN PyDict(ChoreLogPayload(row))
    ELSE PyDict(EquipmentPayload(row))

\* the answer of server s to GET end_url with the query[] parameters filters
Respond(s, end_url, filters) ==
    IF s.failing # <<>> /\ s.failing[1].url = end_url
        THEN Response(s.failing[1].status_code, ErrorBody)
    ELSE IF s.empty # <<>> /\ s.empty[1] = end_url
        THEN Response(200, EmptyBody)
    ELSE IF end_url.path = "objects/tasks"
        THEN Response(200, Doc(PyDict([SamplePayload("TaskResponse") EXCEPT
                                          !["id"] = PyInt(end_url.id)])))
    ELSE IF end_url.path \in {"objects/chores_log", "objects/equipment"} /\ end_url.id = 0
        THEN IF \E i \in DOMAIN filters : filters[i] \notin KnownFilters(end_url.path)
             THEN Response(500, ErrorBody)
             ELSE LET rows == Filtered(RowsAt(s, end_url.path), filters)
                  IN  Response(200, Doc(PyList([i \in DOMAIN rows |->
                                                 RowPayload(end_url.path, rows[i])])))
    ELSE IF end_url.path \in {"objects/chores_log", "objects/equipment"}
        THEN LET rows == SelectSeq(RowsAt(s, end_url.path),
                                   LAMBDA row : row.id = end_url.id)
             IN  IF rows = <<>> THEN Response(400, ErrorBody)
                 ELSE Response(200, Doc(RowPayload(end_url.path, rows[1])))
    ELSE IF end_url.path = "userfields/chores_log"
        THEN Response(200, Doc(UserfieldsPayload(end_url.id)))
    ELSE IF end_url.path = "chores"
        THEN Response(200, Doc(PyDict(ChoreDetailsPayload(end_url.id))))
    ELSE IF end_url.path = "users"
        THEN Response(200, Doc(PyList([i \in DOMAIN s.users |->
                                        PyDict(UserPayload(s.users[i]))])))
    ELSE IF end_url.path = "stock/products"
        THEN Response(200, Doc(PyDict(ProductDetailsPayload(end_url.id))))
    ELSE IF end_url.path = "stock"
        THEN Response(200, Doc(PyList([i \in DOMAIN s.stock |->
                                        PyDict(CurrentStockPayload(s.stock[i]))])))
    ELSE Response(404, ErrorBody)

\* the answer of server s to a POST to end_url
RespondPost(s, end_url) ==
    IF s.failing # <<>> /\ s.failing[1].url = end_url
        THEN Response(s.failing[1].status_code, ErrorBody)
    ELSE IF end_url.path = "stock/products/{product_id}/inventory"
        THEN Response(200, Doc(PyList([i \in DOMAIN s.stock_log |->
                                        PyDict(StockLogPayload(s.stock_log[i]))])))
    ELSE Response(204, EmptyBody)

\* the filters of a request as the server receives them
FiltersSent(query_filters) == IF Truthy(query_filters) THEN query_filters.v ELSE <<>>

-----------------------------------------------------------------------------
(* GrocyApiClient: the typed endpoints.  Each gives the exchanges it made  *)
(* and its result.                                                         *)

Get(s, end_url, query_filters) ==
    DoGetRequest(end_url, query_filters, Respond(s, end_url, FiltersSent(query_filters)))

Post(s, end_url, data) == DoPostRequest(end_url, data, RespondPost(s, end_url))

Done(exchanges, result) == [wire |-> exchanges, result |-> result]

\* [Model(**x) for x in parsed_json]
DecodeEach(model, payloads) ==
    LET gathered(decoded) ==
            IF \E i \in DOMAIN decoded : decoded[i].kind = "raise"
            THEN Raise(decoded[CHOOSE i \in DOMAIN decoded :
                                 /\ decoded[i].kind = "raise"
                                 /\ \A j \in 1..(i - 1) : decoded[j].kind = "return"].error)
            ELSE Return(PyList([i \in DOMAIN decoded |-> decoded[i].value]))
    IN  gathered([i \in DOMAIN payloads |->
                    IF payloads[i].t = "dict" THEN DecodeModel(model, payloads[i].v)
                    ELSE Raise(PyError("TypeError"))])

\* Model(**parsed_json)
DecodeOne(model, payload) ==
    IF payload.t = "dict" THEN DecodeModel(model, payload.v) ELSE Raise(PyError("TypeError"))

get_chores_log(s, query_filters) ==
    LET parsed(r) ==
            IF r.result.kind = "raise" THEN Done(<<r.exchange>>, r.result)
            ELSE IF Truthy(r.result.value)
                THEN Done(<<r.exchange>>, DecodeEach("ChoreLogResponse", r.result.value.v))
            ELSE Done(<<r.exchange>>, Return(PyList(<<>>)))
    IN  parsed(Get(s, Url("objects/chores_log", 0), query_filters))

get_chore_log(s, chore_log_id) ==
    LET parsed(r) ==
            IF r.result.kind = "raise" THEN Done(<<r.exchange>>, r.result)
            ELSE IF Truthy(r.result.value)
                THEN Done(<<r.exchange>>, DecodeOne("ChoreLogResponse", r.result.value))
            ELSE Done(<<r.exchange>>, Return(NoneV))
    IN  parsed(Get(s, Url("objects/chores_log", chore_log_id), NoneV))

get_chore(s, chore_id) ==
    LET parsed(r) ==
            IF r.result.kind = "raise" THEN Done(<<r.exchange>>, r.result)
            ELSE IF Truthy(r.result.value)
                THEN Done(<<r.exchange>>, DecodeOne("ChoreDetailsResponse", r.result.value))
            ELSE Done(<<r.exchange>>, Return(NoneV))
    IN  parsed(Get(s, Url("chores", chore_id), NoneV))

get_userfields(s, entity, object_id) ==
    LET parsed(r) == Done(<<r.exchange>>, r.result)
    IN  parsed(Get(s, Url("userfields/" \o entity, object_id), NoneV))

get_equipment(s, equipment_id) ==
    LET wrapped(exchange, equipment_data) ==
            IF equipment_data.kind = "raise" THEN Done(<<exchange>>, equipment_data)
            ELSE Done(<<exchange>>,
                      DecodeModel("EquipmentDetailsResponse",
                                  [equipment |-> equipment_data.value]))
        parsed(r) ==
            IF r.result.kind = "raise" THEN Done(<<r.exchange>>, r.result)
            ELSE IF Truthy(r.result.value)
                THEN wrapped(r.exchange, DecodeOne("EquipmentData", r.result.value))
            ELSE Done(<<r.exchange>>, Return(NoneV))
    IN  parsed(Get(s, Url("objects/equipment", equipment_id), NoneV))

get_all_equipment(s, query_filters) ==
    LET parsed(r) ==
            IF r.result.kind = "raise" THEN Done(<<r.exchange>>, r.result)
            ELSE IF Truthy(r.result.value) THEN Done(<<r.exchange>>, r.result)
            ELSE Done(<<r.exchange>>, Return(PyList(<<>>)))
    IN  parsed(Get(s, Url("objects/equipment", 0), query_filters))

get_generic_objects_for_type(s, entity_type, query_filters) ==
    LET parsed(r) == Done(<<r.exchange>>, r.result)
    IN  parsed(Get(s, Url("objects/" \o entity_type, 0), query_filters))

get_task(s, task_id) ==
    LET parsed(r) ==
            IF r.result.kind = "raise" THEN Done(<<r.exchange>>, r.result)
            ELSE Done(<<r.exchange>>, DecodeOne("TaskResponse", r.result.value))
    IN  parsed(Get(s, Url("objects/tasks", task_id), NoneV))

\* query_params is built from user_id and never sent: the whole list is asked for
get_user(s, user_id) ==
    LET parsed(r) ==
            IF r.result.kind = "raise" THEN Done(<<r.exchange>>, r.result)
            ELSE IF Truthy(r.result.value)
                THEN Done(<<r.exchange>>, DecodeOne("UserDto", r.result.value.v[1]))
            ELSE Done(<<r.exchange>>, Return(NoneV))
    IN  parsed(Get(s, Url("users", 0), NoneV))

get_stock(s) ==
    LET parsed(r) ==
            IF r.result.kind = "raise" THEN Done(<<r.exchange>>, r.result)
            ELSE IF Truthy(r.result.value)
                THEN Done(<<r.exchange>>, DecodeEach("CurrentStockResponse", r.result.value.v))
            ELSE Done(<<r.exchange>>, Return(PyList(<<>>)))
    IN  parsed(Get(s, Url("stock", 0), NoneV))

\* localize_datetime(best_before_date).strftime("%Y-%m-%d")
DateStr(date) == PyStr(SubSeq(date.v, 1, 10))

\* data[key] = value, if value is not None
WithKey(data, key, value) == IF value.t = "None" THEN data ELSE (key :> value) @@ data

inventory_product(s, product_id, new_amount, best_before_date, shopping_location_id, location_id, price) ==
    LET data ==
            WithKey(WithKey(WithKey(WithKey(("new_amount" :> new_amount),
                "best_before_date",
                IF best_before_date.t = "None" THEN NoneV ELSE DateStr(best_before_date)),
                "shopping_location_id", shopping_location_id),
                "location_id", location_id),
                "price", price)
        first(stockLog) ==
            IF stockLog.kind = "raise" THEN stockLog ELSE Return(stockLog.value.v[1])
        parsed(r) ==
            IF r.result.kind = "raise" THEN Done(<<r.exchange>>, r.result)
            ELSE IF Truthy(r.result.value)
                THEN Done(<<r.exchange>>,
                          first(DecodeEach("StockLogResponse", r.result.value.v)))
            ELSE Done(<<r.exchange>>, Return(NoneV))
    IN  parsed(Post(s, Url("stock/products/{product_id}/inventory", product_id),
                    PyDict(data)))

-----------------------------------------------------------------------------
(* Domain objects *)

AttributeError == PyError("AttributeError")

\* dict.get(key)
DictGet(d, key) == IF key \in DOMAIN d THEN d[key] ELSE NoneV

\* a or b
PyOr(a, b) == IF Truthy(a) THEN a ELSE b

\* User(id=..., username=..., first_name=..., last_name=..., display_name=...)
User(user) ==
    [ t |-> "User",
      v |-> [ id |-> user.v["id"], username |-> user.v["username"],
              first_name |-> user.v["first_name"], last_name |-> user.v["last_name"],
              display_name |-> user.v["display_name"] ] ]

\* Chore.from_details_response: the chore of a details response
ChoreFromDetailsResponse(resp) ==
    IF resp.t = "None" THEN Raise(AttributeError)
    ELSE Return([ t |-> "Chore",
                  v |-> [ id |-> resp.v["chore"].v["id"],
                          name |-> resp.v["chore"].v["name"],
                          last_execution_time |-> resp.v["last_tracked"],
                          track_count |-> resp.v["track_count"] ] ])

\* ChoreLog.from_response
ChoreLogFromResponse(resp) ==
    IF resp.t = "None" THEN Raise(AttributeError)
    ELSE Return([ t |-> "ChoreLog",
                  v |-> [ id |-> resp.v["id"],
                          chore_id |-> resp.v["chore_id"],
                          tracked_time |-> resp.v["tracked_time"],
                          done_by |-> resp.v["done_by_user_id"],
                          row_created_timestamp |-> resp.v["row_created_timestamp"],
                          undone |-> resp.v["undone"],
                          undone_timestamp |-> resp.v["undone_timestamp"],
                          skipped |-> resp.v["skipped"],
                          scheduled_execution_time |-> resp.v["scheduled_execution_time"],
                          userfields |-> resp.v["userfields"],
                          chore |-> NoneV,
                          done_by_user |-> NoneV ] ])

\* what a hydrate gives: the exchanges made, the object as left, the result
Hydrated(exchanges, obj, result) == [wire |-> exchanges, obj |-> obj, result |-> result]

\* ChoreLog.get_details, were it to assign nothing unless every request succeeds
ChoreLogGetDetails_all_or_nothing(s, self) ==
    LET with_user(self2, sent, user) ==
            IF user.result.kind = "raise"
            THEN Hydrated(sent \o user.wire, self2, user.result)
            ELSE IF user.result.value.t = "None"
                THEN Hydrated(sent \o user.wire, self2, Raise(AttributeError))
            ELSE Hydrated(sent \o user.wire,
                          [self2 EXCEPT !.v["done_by_user"] = User(user.result.value)],
                          Return(NoneV))
        with_chore(self1, sent, ch) ==
            LET chore == IF ch.result.kind = "raise" THEN ch.result
                         ELSE ChoreFromDetailsResponse(ch.result.value)
            IN  IF chore.kind = "raise" THEN Hydrated(sent \o ch.wire, self1, chore)
                ELSE with_user([self1 EXCEPT !.v["chore"] = chore.value],
                               sent \o ch.wire,
                               get_user(s, self1.v["done_by"].v))
        with_userfields(uf) ==
            IF uf.result.kind = "raise" THEN Hydrated(uf.wire, self, uf.result)
            ELSE with_chore([self EXCEPT !.v["userfields"] = uf.result.value],
                            uf.wire,
                            get_chore(s, self.v["chore_id"].v))
        settled(h) == IF h.result.kind = "raise" THEN Hydrated(h.wire, self, h.result) ELSE h
    IN  settled(with_userfields(get_userfields(s, "chores_log", self.v["id"].v)))

\* ChoreLog.get_details
ChoreLogGetDetails(s, self) ==
    LET with_user(self2, sent, user) ==
            IF user.result.kind = "raise"
            THEN Hydrated(sent \o user.wire, self2, user.result)
            ELSE IF user.result.value.t = "None"
                THEN Hydrated(sent \o user.wire, self2, Raise(AttributeError))
            ELSE Hydrated(sent \o user.wire,
                          [self2 EXCEPT !.v["done_by_user"] = User(user.result.value)],
                          Return(NoneV))
        with_chore(self1, sent, ch) ==
            LET chore == IF ch.result.kind = "raise" THEN ch.result
                         ELSE ChoreFromDetailsResponse(ch.result.value)
            IN  IF chore.kind = "raise" THEN Hydrated(sent \o ch.wire, self1, chore)
                ELSE with_user([self1 EXCEPT !.v["chore"] = chore.value],
                               sent \o ch.wire,
                               get_user(s, self1.v["done_by"].v))
        with_userfields(uf) ==
            IF uf.result.kind = "raise" THEN Hydrated(uf.wire, self, uf.result)
            ELSE with_chore([self EXCEPT !.v["userfields"] = uf.result.value],
                            uf.wire,
                            get_chore(s, self.v["chore_id"].v))
    IN  with_userfields(get_userfields(s, "chores_log", self.v["id"].v))

\* Equipment(response) for a dict: _init_from_dict
EquipmentFromDict(response) ==
    [ t |-> "Equipment",
      v |-> [ id |-> DictGet(response, "id"),
              name |-> DictGet(response, "name"),
              description |-> DictGet(response, "description"),
              instruction_manual_file_name |->
                  DictGet(response, "instruction_manual_file_name"),
              created_timestamp |-> PyOr(DictGet(response, "row_created_timestamp"),
                                         DictGet(response, "created_timestamp")),
              userfields |-> DictGet(response, "userfields") ] ]

\* Equipment(response) for an EquipmentDetailsResponse
EquipmentFromDetailsResponse(response) ==
    IF response.t = "None" THEN Raise(AttributeError)
    ELSE LET equipment == response.v["equipment"].v
         IN  Return([ t |-> "Equipment",
                      v |-> [ id |-> equipment["id"],
                              name |-> equipment["name"],
                              description |-> equipment["description"],
                              instruction_manual_file_name |->
                                  equipment["instruction_manual_file_name"],
                              created_timestamp |-> equipment["created_timestamp"],
                              userfields |-> equipment["userfields"] ] ])

\* Equipment.get_details
EquipmentGetDetails(s, self) ==
    LET with_details(details) ==
            LET init == IF details.result.kind = "raise" THEN details.result
                        ELSE EquipmentFromDetailsResponse(details.result.value)
            IN  IF init.kind = "raise" THEN Hydrated(details.wire, self, init)
                ELSE Hydrated(details.wire, init.value, Return(NoneV))
    IN  with_details(get_equipment(s, self.v["id"].v))

\* Product.from_stock_log_response: the product of a stock log entry
ProductFromStockLogResponse(resp) ==
    [ t |-> "Product",
      v |-> [ id |-> resp.v["product_id"], name |-> NoneV, details |-> NoneV ] ]

\* Product.from_stock_response: the product of a current-stock entry
ProductFromStockResponse(resp) ==
    [ t |-> "Product",
      v |-> [ id |-> resp.v["product_id"], name |-> resp.v["product"].v["name"],
              available_amount |-> resp.v["amount"],
              amount_aggregated |-> resp.v["amount_aggregated"],
              amount_opened |-> resp.v["amount_opened"],
              amount_opened_aggregated |-> resp.v["amount_opened_aggregated"],
              is_aggregated_amount |-> resp.v["is_aggregated_amount"],
              best_before_date |-> resp.v["best_before_date"] ] ]

\* Product.get_details: the product's details, fetched and attached
ProductGetDetails(s, self) ==
    LET with_details(r) ==
            IF r.result.kind = "raise" THEN Hydrated(<<r.exchange>>, self, r.result)
            ELSE IF r.result.value.t # "dict"
                THEN Hydrated(<<r.exchange>>, self, Raise(AttributeError))
            ELSE Hydrated(<<r.exchange>>,
                          [self EXCEPT !.v["name"] = r.result.value.v["product"].v["name"],
                                       !.v["details"] = r.result.value],
                          Return(NoneV))
    IN  with_details(Get(s, Url("stock/products", self.v["id"].v), NoneV))

\* item.get_details(self._api)
GetDetails(s, item) ==
    IF item.t = "ChoreLog" THEN ChoreLogGetDetails(s, item) ELSE EquipmentGetDetails(s, item)

-----------------------------------------------------------------------------
(* Managers *)

\* what a loop over items gives: the exchanges made, the items as left, the result
Looped(exchanges, items, result) == [wire |-> exchanges, items |-> items, result |-> result]

\* for item in items: item.get_details(self._api), from the i-th item on
RECURSIVE HydrateEach(_, _, _)
HydrateEach_swallow(s, items, i) ==
    LET joined(h, rest) == Looped(h.wire \o rest.wire, rest.items, rest.result)
        hydrated(h) == joined(h, HydrateEach(s, [items EXCEPT ![i] = h.obj], i + 1))
    IN  IF i > Len(items) THEN Looped(<<>>, items, Return(NoneV))
        ELSE hydrated(GetDetails(s, items[i]))

HydrateEach_first_only(s, items, i) ==
    LET hydrated(h) == Looped(h.wire, [items EXCEPT ![i] = h.obj], h.result)
    IN  IF i > Len(items) \/ i > 1 THEN Looped(<<>>, items, Return(NoneV))
        ELSE hydrated(GetDetails(s, items[i]))

\* the loop, were it to take the items last to first
HydrateEach_last_first(s, items, i) ==
    LET joined(h, rest) == Looped(h.wire \o rest.wire, rest.items, rest.result)
        hydrated(k, h) ==
            IF h.result.kind = "raise"
            THEN Looped(h.wire, [items EXCEPT ![k] = h.obj], h.result)
            ELSE joined(h, HydrateEach(s, [items EXCEPT ![k] = h.obj], i + 1))
    IN  IF i > Len(items) THEN Looped(<<>>, items, Return(NoneV))
        ELSE hydrated(Len(items) - i + 1, GetDetails(s, items[Len(items) - i + 1]))

HydrateEach(s, items, i) ==
    LET joined(h, rest) == Looped(h.wire \o rest.wire, rest.items, rest.result)
        hydrated(h) ==
            IF h.result.kind = "raise"
            THEN Looped(h.wire, [items EXCEPT ![i] = h.obj], h.result)
            ELSE joined(h, HydrateEach(s, [items EXCEPT ![i] = h.obj], i + 1))
    IN  IF i > Len(items) THEN Looped(<<>>, items, Return(NoneV))
        ELSE hydrated(GetDetails(s, items[i]))

\* the tail of every list(get_details, query_filters): hydrate if asked, return
ListTail(s, sent, items, get_details) ==
    LET looped(h) ==
            IF h.result.kind = "raise" THEN Done(sent \o h.wire, h.result)
            ELSE Done(sent \o h.wire, Return(PyList(h.items)))
    IN  IF get_details THEN looped(HydrateEach(s, items, 1))
        ELSE Done(sent, Return(PyList(items)))

\* ChoreLogManager.list
ChoreLogManagerList(s, get_details, query_filters) ==
    LET listed(raw_chores_log) ==
            IF raw_chores_log.result.kind = "raise" THEN raw_chores_log
            ELSE LET raw == raw_chores_log.result.value.v
                     chores_log == [i \in DOMAIN raw |-> ChoreLogFromResponse(raw[i]).value]
                 IN  ListTail(s, raw_chores_log.wire, chores_log, get_details)
    IN  listed(get_chores_log(s, query_filters))

\* ChoreLogManager.get
ChoreLogManagerGet(s, chore_log_id) ==
    LET got(resp) ==
            IF resp.result.kind = "raise" THEN resp
            ELSE Done(resp.wire, ChoreLogFromResponse(resp.result.value))
    IN  got(get_chore_log(s, chore_log_id))

\* EquipmentManager.list
EquipmentManagerList(s, query_filters, get_details) ==
    LET listed(raw_equipment) ==
            IF raw_equipment.result.kind = "raise" THEN raw_equipment
            ELSE LET raw == raw_equipment.result.value.v
                     equipment_items == [i \in DOMAIN raw |-> EquipmentFromDict(raw[i].v)]
                 IN  ListTail(s, raw_equipment.wire, equipment_items, get_details)
    IN  listed(get_all_equipment(s, query_filters))

\* the loop of EquipmentManager.get_all_objects, from the i-th item on
RECURSIVE GetAllObjectsLoop(_, _, _, _)
GetAllObjectsLoop(s, equipment_data, i, equipment_items) ==
    LET joined(sent, rest) == Done(sent \o rest.wire, rest.result)
        fetched(equipment_details) ==
            IF equipment_details.result.kind = "raise" THEN equipment_details
            ELSE joined(equipment_details.wire,
                        GetAllObjectsLoop(s, equipment_data, i + 1,
                            IF Truthy(equipment_details.result.value)
                            THEN Append(equipment_items,
                                        EquipmentFromDetailsResponse(
                                            equipment_details.result.value).value)
                            ELSE equipment_items))
    IN  IF i > Len(equipment_data) THEN Done(<<>>, Return(PyList(equipment_items)))
        ELSE fetched(get_equipment(s, equipment_data[i].v["id"].v))

\* EquipmentManager.get_all_objects
EquipmentManagerGetAllObjects(s) ==
    LET joined(sent, loop) == Done(sent \o loop.wire, loop.result)
        decoded(sent, equipment_data) ==
            IF equipment_data.kind = "raise" THEN Done(sent, equipment_data)
            ELSE joined(sent, GetAllObjectsLoop(s, equipment_data.value.v, 1, <<>>))
        listed(raw_equipment) ==
            IF raw_equipment.result.kind = "raise" THEN raw_equipment
            ELSE IF ~Truthy(raw_equipment.result.value)
                THEN Done(raw_equipment.wire, Return(PyList(<<>>)))
            ELSE decoded(raw_equipment.wire,
                         DecodeEach("EquipmentData", raw_equipment.result.value.v))
    IN  listed(get_generic_objects_for_type(s, "equipment", NoneV))


\* a parameter declared with '= default': the default when the caller leaves the
\* argument out, the argument otherwise (None included)
WithDefault(argument, default) == IF argument.t = "Missing" THEN default ELSE argument

\* GrocyApiClient.add_product_to_shopping_list
add_product_to_shopping_list(s, product_id, shopping_list_id, amount, quantity_unit_id) ==
    LET posted(r) ==
            IF r.result.kind = "raise" THEN Done(<<r.exchange>>, r.result)
            ELSE Done(<<r.exchange>>, Return(NoneV))
        sent(data, qu_id) ==
            posted(Post(s, Url("stock/shoppinglist/add-product", 0),
                        PyDict(IF Truthy(qu_id) THEN ("qu_id" :> qu_id) @@ data ELSE data)))
    IN  sent([product_id |-> PyInt(product_id),
              list_id |-> WithDefault(shopping_list_id, PyInt(1)),
              product_amount |-> WithDefault(amount, PyInt(1))],
             WithDefault(quantity_unit_id, NoneV))

\* ShoppingListManager.add_product: its own defaults are None, and it passes
\* all four arguments on
ShoppingListManagerAddProduct(s, product_id, shopping_list_id, amount, quantity_unit_id) ==
    add_product_to_shopping_list(s, product_id, WithDefault(shopping_list_id, NoneV),
                                 WithDefault(amount, NoneV),
                                 WithDefault(quantity_unit_id, NoneV))

\* EquipmentManager.get
EquipmentManagerGet(s, equipment_id) ==
    LET got(equipment_data) ==
            IF equipment_data.result.kind = "raise" THEN equipment_data
            ELSE IF Truthy(equipment_data.result.value)
                THEN Done(equipment_data.wire,
                          EquipmentFromDetailsResponse(equipment_data.result.value))
            ELSE Done(equipment_data.wire, Return(NoneV))
    IN  got(get_equipment(s, equipment_id))

\* ChoreManager.get
ChoreManagerGet(s, chore_id) ==
    LET got(resp) ==
            IF resp.result.kind = "raise" THEN resp
            ELSE Done(resp.wire, ChoreFromDetailsResponse(resp.result.value))
    IN  got(get_chore(s, chore_id))

\* Task.from_response: the task of a response
TaskFromResponse(resp) ==
    IF resp.t = "None" THEN Raise(AttributeError)
    ELSE Return([t |-> "Task", v |-> resp.v])

\* TaskManager.get
TaskManagerGet(s, task_id) ==
    LET got(resp) ==
            IF resp.result.kind = "raise" THEN resp
            ELSE Done(resp.wire, TaskFromResponse(resp.result.value))
    IN  got(get_task(s, task_id))

\* str(n) of an int, as its characters
RECURSIVE IntStr(_)
IntStr(n) ==
    IF n < 0 THEN <<"-">> \o IntStr(0 - n)
    ELSE IF n < 10 THEN <<SubSeq(<<"0", "1", "2", "3", "4", "5", "6", "7", "8", "9">>,
                                 n + 1, n + 1)[1]>>
    ELSE IntStr(n \div 10) \o IntStr(n % 10)

\* f"{product_id}.jpg", as its characters
PictureName(product_id) == IntStr(product_id) \o <<".", "j", "p", "g">>

\* text.encode("ascii"), for the characters a picture name is made of
AsciiEncode(text) ==
    [i \in DOMAIN text |->
        CASE text[i] \in Digits -> 48 + DigitVal(text[i])
          [] text[i] = "-" -> 45
          [] text[i] = "." -> 46
          [] text[i] = "g" -> 103
          [] text[i] = "j" -> 106
          [] text[i] = "p" -> 112]

Base64Alphabet ==
    << "A", "B", "C", "D", "E", "F", "G", "H", "I", "J", "K", "L", "M",
       "N", "O", "P", "Q", "R", "S", "T", "U", "V", "W", "X", "Y", "Z",
       "a", "b", "c", "d", "e", "f", "g", "h", "i", "j", "k", "l", "m",
       "n", "o", "p", "q", "r", "s", "t", "u", "v", "w", "x", "y", "z",
       "0", "1", "2", "3", "4", "5", "6", "7", "8", "9", "+", "/" >>

\* str(base64.b64encode(b), "utf-8"), as its characters: three bytes make four
\* characters, and a last group of one or two bytes is padded with "="
RECURSIVE Base64Encode(_)
Base64Encode(b) ==
    LET sextet(n) == Base64Alphabet[n + 1]
    IN  CASE Len(b) = 0 -> <<>>
          [] Len(b) = 1 ->
                << sextet(b[1] \div 4), sextet((b[1] % 4) * 16), "=", "=" >>
          [] Len(b) = 2 ->
                << sextet(b[1] \div 4), sextet((b[1] % 4) * 16 + b[2] \div 16),
                   sextet((b[2] % 16) * 4), "=" >>
          [] OTHER ->
                << sextet(b[1] \div 4), sextet((b[1] % 4) * 16 + b[2] \div 16),
                   sextet((b[2] % 16) * 4 + b[3] \div 64), sextet(b[3] % 64) >>
                    \o Base64Encode(SubSeq(b, 4, Len(b)))

\* "files/productpictures/" + file name
PictureUrl(file) == [path |-> "files/productpictures", file |-> file]

\* requests.put as the server of this model answers it
RespondPut(s, end_url) ==
    IF s.failing # <<>> /\ s.failing[1].url = end_url
        THEN Response(s.failing[1].status_code, ErrorBody)
    ELSE Response(204, EmptyBody)

Put(s, end_url, data) == DoPutRequest(end_url, data, RespondPut(s, end_url))

\* open(pic_path, "rb"): the file, or the error of a path that names none
Open(pic_path) ==
    IF pic_path.content.t = "None" THEN Raise(PyError("FileNotFoundError"))
    ELSE Return(pic_path.content)

\* GrocyApiClient.upload_product_picture
upload_product_picture(s, product_id, pic_path) ==
    LET put(r) == Done(<<r.exchange>>,
                       IF r.result.kind = "raise" THEN r.result ELSE Return(NoneV))
        with(req_url, pic) ==
            IF pic.kind = "raise" THEN Done(<<>>, pic)
            ELSE put(Put(s, req_url, pic.value))
    IN  with(PictureUrl(Base64Encode(AsciiEncode(PictureName(product_id)))),
             Open(pic_path))

\* GrocyApiClient.update_product_pic
update_product_pic(s, product_id) ==
    LET put(r) == Done(<<r.exchange>>,
                       IF r.result.kind = "raise" THEN r.result ELSE Return(NoneV))
    IN  put(Put(s, Url("objects/products", product_id),
                PyDict([picture_file_name |-> PyStr(PictureName(product_id))])))

\* StockManager.upload_product_picture, the file name recorded whatever became
\* of the upload
StockManagerUploadProductPicture_records_anyway(s, product_id, pic_path) ==
    LET updated(sent, r) == Done(sent \o r.wire, r.result)
        uploaded(r) == updated(r.wire, update_product_pic(s, product_id))
    IN  uploaded(upload_product_picture(s, product_id, pic_path))

\* StockManager.upload_product_picture
StockManagerUploadProductPicture(s, product_id, pic_path) ==
    LET updated(sent, r) == Done(sent \o r.wire, r.result)
        uploaded(r) ==
            IF r.result.kind = "raise" THEN r
            ELSE updated(r.wire, update_product_pic(s, product_id))
    IN  uploaded(upload_product_picture(s, product_id, pic_path))

\* StockManager.current
StockManagerCurrent(s) ==
    LET listed(raw_stock) ==
            IF raw_stock.result.kind = "raise" THEN raw_stock
            ELSE Done(raw_stock.wire,
                      Return(PyList([i \in DOMAIN raw_stock.result.value.v |->
                          ProductFromStockResponse(raw_stock.result.value.v[i])])))
    IN  listed(get_stock(s))

\* StockManager.inventory
StockManagerInventory(s, product_id, new_amount, best_before_date, shopping_location_id, location_id, price, get_details) ==
    LET detailed(sent, h) ==
            IF h.result.kind = "raise" THEN Done(sent \o h.wire, h.result)
            ELSE Done(sent \o h.wire, Return(h.obj))
        booked(resp) ==
            IF resp.result.kind = "raise" THEN resp
            ELSE IF Truthy(resp.result.value)
                THEN IF get_details
                     THEN detailed(resp.wire,
                                   ProductGetDetails(s,
                                       ProductFromStockLogResponse(resp.result.value)))
                     ELSE Done(resp.wire,
                               Return(ProductFromStockLogResponse(resp.result.value)))
            ELSE Done(resp.wire, Return(NoneV))
    IN  booked(inventory_product(s, product_id, new_amount, best_before_date,
                                 shopping_location_id, location_id, price))

\* UserManager.get
UserManagerGet(s, user_id) ==
    LET got(user) ==
            IF user.result.kind = "raise" THEN user
            ELSE IF Truthy(user.result.value)
                THEN Done(user.wire, Return(User(user.result.value)))
            ELSE Done(user.wire, Return(NoneV))
    IN  got(get_user(s, user_id))

-----------------------------------------------------------------------------
(* The manager calls, each against any server *)

ChoreLogUrls ==
    {Url("objects/chores_log", 0), Url("users", 0)}
        \cup {Url("userfields/chores_log", row.id) : row \in ChoreLogRows}
        \cup {Url("objects/chores_log", row.id) : row \in ChoreLogRows}
        \cup {Url("chores", row.chore_id) : row \in ChoreLogRows}

EquipmentUrls ==
    {Url("objects/equipment", 0)} \cup {Url("objects/equipment", row.id) : row \in EquipmentRows}

ChoreLogServers ==
    [ users : Arrangements(UserRows, Cardinality(UserRows)),
      chores_log : Arrangements(ChoreLogRows, MaxItems),
      equipment : {<<>>},
      stock_log : {<<>>},
      stock : {<<>>},
      empty : {<<>>},
      failing : Failing(ChoreLogUrls) ]

EquipmentServers ==
    [ users : {<<>>},
      chores_log : {<<>>},
      equipment : Arrangements(EquipmentRows, MaxItems),
      stock_log : {<<>>},
      stock : {<<>>},
      empty : {<<>>},
      failing : Failing(EquipmentUrls) ]

ChoreLogFilters == {NoneV, PyList(<<"undone=1">>), PyList(<<"bogus">>)}

UserServers ==
    [ users : Arrangements(UserRows, Cardinality(UserRows)),
      chores_log : {<<>>},
      equipment : {<<>>},
      stock_log : {<<>>},
      stock : {<<>>},
      empty : {<<>>},
      failing : Failing({Url("users", 0)}) ]

EquipmentFilters == {NoneV, PyList(<<"name=Coffee machine">>), PyList(<<"bogus">>)}

ProductIds == {5}

StockUrls ==
    {Url("stock/products/{product_id}/inventory", id) : id \in ProductIds}
        \cup {Url("stock/products", row.product_id) : row \in StockLogRows}

StockServers ==
    [ users : {<<>>},
      chores_log : {<<>>},
      equipment : {<<>>},
      stock_log : Arrangements(StockLogRows, MaxItems),
      stock : {<<>>},
      empty : {<<>>},
      failing : Failing(StockUrls) ]

Amounts == {PyInt(10)}

OptionalDates == {NoneV, PyDatetime("2024-05-01 10:00:00")}

OptionalNumbers == {NoneV, PyInt(2)}

CurrentStockServers ==
    [ users : {<<>>},
      chores_log : {<<>>},
      equipment : {<<>>},
      stock_log : {<<>>},
      stock : Arrangements(StockRows, MaxItems),
      empty : {<<>>},
      failing : Failing({Url("stock", 0)}) ]

\* a server that answers one URL with a success status and an empty body
EmptyBodyServers(urls) == {[NoServer EXCEPT !.empty = <<u>>] : u \in urls}

\* the ids a single resource is asked by
ResourceIds == {1, 3}

\* the keyword arguments a caller passes after the id
KeywordArguments == {<<>>} \cup {[get_details |-> b] : b \in BOOLEAN}

\* a call of a method: a keyword that is no parameter of it is a TypeError,
\* raised before the body runs
CallWithKeywords(parameters, kwargs, body) ==
    IF DOMAIN kwargs \subseteq parameters THEN body
    ELSE Done(<<>>, Raise(PyError("TypeError")))

ShoppingListUrls == {Url("stock/shoppinglist/add-product", 0)}

ShoppingListServers ==
    [ users : {<<>>},
      chores_log : {<<>>},
      equipment : {<<>>},
      stock_log : {<<>>},
      stock : {<<>>},
      empty : {<<>>},
      failing : Failing(ShoppingListUrls) ]

\* an argument the caller leaves out, or one of these
OptionalIds == {Missing, NoneV, PyInt(1), PyInt(2)}

OptionalAmounts == {Missing, NoneV, PyInt(0), PyInt(3)}

Init ==
    /\ client = GrocyApiClientInit("https://example.com", "secret",
                                   DEFAULT_PORT_NUMBER, NoneV, TRUE)
    /\ srv = NoServer
    /\ call = [op |-> "none"]
    /\ wire = <<>>
    /\ outcome = NoOutcome
    /\ grocy = NoFacade

\* a call made of server s ends: r holds the exchanges it made and its result
Ends(made, s, r) ==
    /\ srv' = s
    /\ call' = made
    /\ wire' = r.wire
    /\ outcome' = r.result
    /\ UNCHANGED <<client, grocy>>

ChoreLogList ==
    /\ Idle
    /\ \E s \in ChoreLogServers, get_details \in BOOLEAN, query_filters \in ChoreLogFilters :
        Ends([op |-> "chores_log.list", get_details |-> get_details,
              query_filters |-> query_filters],
             s, ChoreLogManagerList(s, get_details, query_filters))

\* grocy.chores_log.get(chore_log_id, **kwargs)
ChoreLogGet ==
    /\ Idle
    /\ \E chore_log_id \in {row.id : row \in ChoreLogRows}, kwargs \in KeywordArguments :
       \E s \in ChoreLogServers
                \cup EmptyBodyServers({Url("objects/chores_log", chore_log_id)}) :
        Ends([op |-> "chores_log.get", chore_log_id |-> chore_log_id, kwargs |-> kwargs],
             s, CallWithKeywords({"chore_log_id"}, kwargs,
                                 ChoreLogManagerGet(s, chore_log_id)))

EquipmentList ==
    /\ Idle
    /\ \E s \in EquipmentServers, get_details \in BOOLEAN, query_filters \in EquipmentFilters :
        Ends([op |-> "equipment.list", get_details |-> get_details,
              query_filters |-> query_filters],
             s, EquipmentManagerList(s, query_filters, get_details))

EquipmentGetAllObjects ==
    /\ Idle
    /\ \E s \in EquipmentServers :
        Ends([op |-> "equipment.get_all_objects"], s, EquipmentManagerGetAllObjects(s))

StockInventory ==
    /\ Idle
    /\ \E s \in StockServers, product_id \in ProductIds, new_amount \in Amounts,
          best_before_date \in OptionalDates, shopping_location_id \in OptionalNumbers,
          location_id \in OptionalNumbers, price \in OptionalNumbers,
          get_details \in BOOLEAN :
        Ends([op |-> "stock.inventory", product_id |-> product_id,
              new_amount |-> new_amount, best_before_date |-> best_before_date,
              shopping_location_id |-> shopping_location_id,
              location_id |-> location_id, price |-> price,
              get_details |-> get_details],
             s, StockManagerInventory(s, product_id, new_amount, best_before_date,
                                      shopping_location_id, location_id, price,
                                      get_details))

\* grocy.shopping_list.add_product(product_id, ...), the arguments left out
\* being Missing
ShoppingListAddProduct ==
    /\ Idle
    /\ \E s \in ShoppingListServers, product_id \in ProductIds,
          shopping_list_id \in OptionalIds, amount \in OptionalAmounts,
          quantity_unit_id \in OptionalIds :
        Ends([op |-> "shopping_list.add_product", product_id |-> product_id,
              shopping_list_id |-> shopping_list_id, amount |-> amount,
              quantity_unit_id |-> quantity_unit_id],
             s, ShoppingListManagerAddProduct(s, product_id, shopping_list_id, amount,
                                              quantity_unit_id))

EquipmentGet ==
    /\ Idle
    /\ \E equipment_id \in ResourceIds :
        \E s \in EquipmentServers
                \cup EmptyBodyServers({Url("objects/equipment", equipment_id)}) :
            Ends([op |-> "equipment.get", id |-> equipment_id],
                 s, EquipmentManagerGet(s, equipment_id))

ChoreGet ==
    /\ Idle
    /\ \E chore_id \in ResourceIds :
        \E s \in {NoServer} \cup EmptyBodyServers({Url("chores", chore_id)})
                \cup {[NoServer EXCEPT !.failing = f] : f \in Failing({Url("chores", chore_id)})} :
            Ends([op |-> "chores.get", id |-> chore_id], s, ChoreManagerGet(s, chore_id))

TaskGet ==
    /\ Idle
    /\ \E task_id \in ResourceIds :
        \E s \in {NoServer} \cup EmptyBodyServers({Url("objects/tasks", task_id)})
                \cup {[NoServer EXCEPT !.failing = f] : f \in Failing({Url("objects/tasks", task_id)})} :
            Ends([op |-> "tasks.get", id |-> task_id], s, TaskManagerGet(s, task_id))

StockCurrent ==
    /\ Idle
    /\ \E s \in CurrentStockServers :
        Ends([op |-> "stock.current"], s, StockManagerCurrent(s))

\* the products a picture is uploaded for
PictureProductIds == {1, 12, 345}

\* the paths a picture is uploaded from, with the file each one names
PicturePaths ==
    { [path |-> "cat.jpg", content |-> PyBytes(<<255, 216>>)],
      [path |-> "empty.jpg", content |-> PyBytes(<<>>)],
      [path |-> "missing.jpg", content |-> NoneV] }

PictureServers ==
    { [NoServer EXCEPT !.failing = f] :
        f \in Failing({ PictureUrl(Base64Encode(AsciiEncode(PictureName(id)))) :
                            id \in PictureProductIds }
                       \cup { Url("objects/products", id) : id \in PictureProductIds }) }

StockUploadProductPicture ==
    /\ Idle
    /\ \E s \in PictureServers, product_id \in PictureProductIds, pic_path \in PicturePaths :
        Ends([op |-> "stock.upload_product_picture", product_id |-> product_id,
              pic_path |-> pic_path],
             s, StockManagerUploadProductPicture(s, product_id, pic_path))

UserGet ==
    /\ Idle
    /\ \E s \in UserServers \cup EmptyBodyServers({Url("users", 0)}),
          user_id \in {row.id : row \in UserRows} :
        Ends([op |-> "users.get", user_id |-> user_id], s, UserManagerGet(s, user_id))

Next ==
    \/ ChoreLogList
    \/ ChoreLogGet
    \/ EquipmentList
    \/ EquipmentGetAllObjects
    \/ UserGet
    \/ StockInventory
    \/ ShoppingListAddProduct
    \/ StockCurrent
    \/ EquipmentGet
    \/ ChoreGet
    \/ TaskGet
    \/ StockUploadProductPicture
    \/ TakeResult

Spec == Init /\ [][Next]_vars

-----------------------------------------------------------------------------
(* Claims about the manager calls, under Spec *)

ListCall == call.op \in {"chores_log.list", "equipment.list"}

ManagerCall ==
    call.op \in {"chores_log.list", "chores_log.get", "equipment.list",
                 "equipment.get_all_objects", "users.get", "stock.inventory",
                 "shopping_list.add_product", "stock.current", "equipment.get",
                 "chores.get", "tasks.get", "stock.upload_product_picture"}

\* the list URL of a list call and the rows the server answers it with
ListUrl == IF call.op = "chores_log.list" THEN Url("objects/chores_log", 0)
           ELSE Url("objects/equipment", 0)

ListedRows == Filtered(RowsAt(srv, ListUrl.path), FiltersSent(call.query_filters))

Requested(i) == wire[i].url.end

\* the URLs ChoreLog.get_details asks for, in order
ChoreLogHydrateUrls(row) ==
    << Url("userfields/chores_log", row.id), Url("chores", row.chore_id), Url("users", 0) >>

\* C2 as stated: a list call with get_details=true that returns N items has made
\* exactly 1 + N requests, one for the list and one per item.
C2_OneHydrateRequestPerItem ==
    (ListCall /\ call.get_details /\ outcome.kind = "return") =>
        Len(wire) = 1 + Len(outcome.value.v)

\* C2: a list call with get_details=true that returns N items has made the list
\* request and then, item by item in list order, the requests of the item's
\* get_details: three for a chore log (userfields, chore, users), so 1 + 3N, and
\* one for an equipment, so 1 + N.
C2_HydrateRequestsPerItemInListOrder ==
    (ListCall /\ call.get_details /\ outcome.kind = "return") =>
        /\ Len(outcome.value.v) = Len(ListedRows)
        /\ Requested(1) = ListUrl
        /\ call.op = "chores_log.list" =>
            /\ Len(wire) = 1 + 3 * Len(ListedRows)
            /\ \A i \in DOMAIN ListedRows : \A k \in 1..3 :
                Requested(1 + 3 * (i - 1) + k) = ChoreLogHydrateUrls(ListedRows[i])[k]
        /\ call.op = "equipment.list" =>
            /\ Len(wire) = 1 + Len(ListedRows)
            /\ \A i \in DOMAIN ListedRows :
                Requested(1 + i) = Url("objects/equipment", ListedRows[i].id)

C2_Witness ==
    /\ call.op = "chores_log.list"
    /\ call.get_details
    /\ outcome.kind = "return"
    /\ Len(outcome.value.v) = 2
    /\ Len(wire) = 7

\* C3 as stated: in every chore log a list call hydrated, chore.id is the log's
\* chore_id and done_by_user.id is the log's done_by, and id, chore_id, done_by,
\* undone and undone_timestamp are as decoded from the log's payload, whatever
\* users the server lists beside the one who did the chore.
C3_HydratedLogHoldsItsChoreAndItsUser ==
    (call.op = "chores_log.list" /\ call.get_details /\ outcome.kind = "return") =>
        /\ Len(outcome.value.v) = Len(ListedRows)
        /\ \A i \in DOMAIN ListedRows :
            LET log == outcome.value.v[i].v
                decoded == DecodeModel("ChoreLogResponse",
                                       ChoreLogPayload(ListedRows[i])).value.v
            IN  /\ log.chore.v.id = log.chore_id
                /\ (\E u \in DOMAIN srv.users :
                        srv.users[u].id = ListedRows[i].done_by_user_id) =>
                            log.done_by_user.v.id = log.done_by
                /\ log.id = decoded.id
                /\ log.chore_id = decoded.chore_id
                /\ log.done_by = decoded.done_by_user_id
                /\ log.undone = decoded.undone
                /\ log.undone_timestamp = decoded.undone_timestamp

\* C4 as stated: a lookup of a user by id asks for the whole user list, returns
\* the user whose id is the requested one when the list holds that user, and
\* returns None when the list is empty.
C4_LookupReturnsTheUserAskedFor ==
    (call.op = "users.get" /\ outcome.kind = "return") =>
        /\ Len(wire) = 1
        /\ Requested(1) = Url("users", 0)
        /\ wire[1].params = NoneV
        /\ (\E i \in DOMAIN srv.users : srv.users[i].id = call.user_id) =>
            /\ outcome.value.t = "User"
            /\ outcome.value.v.id = PyInt(call.user_id)
        /\ srv.users = <<>> => outcome.value = NoneV

\* C5: a list call whose list request is answered with status 500 raises
\* GrocyError with status_code 500, returns no list, and has made no request
\* but the list request, also with get_details=true.
C5_InvalidFilterRaisesBeforeAnyHydrate ==
    (ListCall /\ wire[1].status_code = 500) =>
        /\ outcome.kind = "raise"
        /\ outcome.error.type = "GrocyError"
        /\ outcome.error.status_code = 500
        /\ outcome.value = NoValue
        /\ Len(wire) = 1
        /\ Requested(1) = ListUrl

C5_Witness ==
    /\ call.op = "chores_log.list"
    /\ call.get_details
    /\ call.query_filters = PyList(<<"bogus">>)
    /\ Len(srv.chores_log) = 2
    /\ wire[1].status_code = 500
    /\ outcome.kind = "raise"

\* C6: in every manager call, a request answered with a failure status is the
\* last request of the call, and the call raises GrocyError with that status
\* code and body and returns nothing.
C6_FailedRequestEndsTheCallWithItsError ==
    ManagerCall =>
        \A i \in DOMAIN wire :
            wire[i].status_code >= 400 =>
                /\ i = Len(wire)
                /\ outcome.kind = "raise"
                /\ outcome.value = NoValue
                /\ outcome.error = GrocyError(wire[i])

C6_Witness ==
    /\ call.op = "chores_log.list"
    /\ call.get_details
    /\ Len(srv.chores_log) = 2
    /\ Len(wire) = 6
    /\ wire[6].url.end.path = "chores"
    /\ wire[6].status_code = 404
    /\ outcome.kind = "raise"
    /\ outcome.error.status_code = 404

InventoryCall == call.op = "stock.inventory"

NoOptionalArguments ==
    /\ call.best_before_date = NoneV
    /\ call.shopping_location_id = NoneV
    /\ call.location_id = NoneV
    /\ call.price = NoneV

\* the result of the inventory call made, had the server answered with stock_log
InventoryResultWith(stock_log) ==
    StockManagerInventory([srv EXCEPT !.stock_log = stock_log], call.product_id,
                          call.new_amount, call.best_before_date,
                          call.shopping_location_id, call.location_id, call.price,
                          call.get_details).result

\* C11 as stated: inventory(product_id, new_amount) with no optional argument
\* posts exactly {"new_amount": new_amount} to stock/products/{product_id}/inventory,
\* and on a non-empty response list its outcome is the one it would have had with
\* the first element alone: the later elements change neither the result nor
\* whether the call succeeds.
C11_InventoryBuildsFromFirstElementOnly ==
    (InventoryCall /\ NoOptionalArguments) =>
        /\ wire[1].verb = "POST"
        /\ Requested(1) = Url("stock/products/{product_id}/inventory", call.product_id)
        /\ wire[1].data = [t |-> "json", v |-> PyDict(("new_amount" :> call.new_amount))]
        /\ (wire[1].status_code < 400 /\ srv.stock_log # <<>>) =>
            outcome = InventoryResultWith(<<srv.stock_log[1]>>)


\* the chore log the server holds under the id asked for
ChoreLogRowAsked(row) ==
    /\ \E i \in DOMAIN srv.chores_log : srv.chores_log[i] = row
    /\ row.id = call.chore_log_id

\* C19 as claimed: ChoreLogManager.get(chore_log_id, get_details=True) is
\* accepted and, the requests succeeding, returns the ChoreLog of that id with
\* its chore and its done_by_user attached; without get_details it returns the
\* lightweight ChoreLog, neither of them attached.
C19_GetWithDetailsReturnsHydratedLog ==
    (call.op = "chores_log.get" /\ srv.failing = <<>>
        /\ \E row \in ChoreLogRows : ChoreLogRowAsked(row)) =>
        /\ outcome.kind = "return"
        /\ outcome.value.t = "ChoreLog"
        /\ outcome.value.v["id"] = PyInt(call.chore_log_id)
        /\ ("get_details" \in DOMAIN call.kwargs /\ call.kwargs.get_details) =>
            /\ outcome.value.v["chore"].t # "None"
            /\ outcome.value.v["done_by_user"].t # "None"
        /\ "get_details" \notin DOMAIN call.kwargs =>
            /\ outcome.value.v["chore"].t = "None"
            /\ outcome.value.v["done_by_user"].t = "None"

\* C20 as claimed: ShoppingListManager.add_product called without
\* shopping_list_id posts to stock/shoppinglist/add-product a body whose
\* list_id is 1 and whose product_amount is a number.
C20_AddProductDefaultsToTheFirstList ==
    (call.op = "shopping_list.add_product" /\ call.shopping_list_id = Missing) =>
        /\ Len(wire) = 1
        /\ wire[1].verb = "POST"
        /\ Requested(1) = Url("stock/shoppinglist/add-product", 0)
        /\ wire[1].data.v.v["product_id"] = PyInt(call.product_id)
        /\ wire[1].data.v.v["list_id"] = PyInt(1)
        /\ wire[1].data.v.v["product_amount"].t \in {"int", "float"}

\* C21 as claimed: every product StockManager.current returns has
\* amount_opened_aggregated <= amount_aggregated; a current-stock entry that
\* breaks the bound does not become a returned object.
C21_OpenedNeverExceedsAggregated ==
    (call.op = "stock.current" /\ outcome.kind = "return") =>
        \A i \in DOMAIN outcome.value.v :
            outcome.value.v[i].v.amount_opened_aggregated.v
                <= outcome.value.v[i].v.amount_aggregated.v

\* the URLs the get_details of a listed row asks for, in order
HydrateUrls(row) ==
    IF call.op = "chores_log.list" THEN ChoreLogHydrateUrls(row)
    ELSE <<Url("objects/equipment", row.id)>>

\* the URLs of a whole list call with get_details: the list, then item by item
RECURSIVE HydrateUrlsFrom(_, _)
HydrateUrlsFrom(rows, i) ==
    IF i > Len(rows) THEN <<>> ELSE HydrateUrls(rows[i]) \o HydrateUrlsFrom(rows, i + 1)

\* C23: in list(get_details=true) the list request is the first one made, the
\* requests that follow are those of the items' get_details in the order the
\* server listed the items, all of item i before any of item i+1 (also when
\* the call stops at a failed request), and the list returned has the length
\* and the order of the server's list.
C23_ListFirstThenItemsInServerOrder ==
    (ListCall /\ call.get_details) =>
        /\ Len(wire) >= 1
        /\ Requested(1) = ListUrl
        /\ wire[1].status_code < 400 =>
            /\ Len(wire) <= 1 + Len(HydrateUrlsFrom(ListedRows, 1))
            /\ \A j \in 2..Len(wire) : Requested(j) = HydrateUrlsFrom(ListedRows, 1)[j - 1]
            /\ \A j \in 1..(Len(wire) - 1) : wire[j].status_code < 400
        /\ outcome.kind = "return" =>
            /\ Len(wire) = 1 + Len(HydrateUrlsFrom(ListedRows, 1))
            /\ Len(outcome.value.v) = Len(ListedRows)
            /\ \A i \in DOMAIN ListedRows :
                    outcome.value.v[i].v.id = PyInt(ListedRows[i].id)

\* two items listed, the second one's hydration failing after the first one's
C23_Witness ==
    /\ call.op = "chores_log.list"
    /\ call.get_details
    /\ Len(ListedRows) = 2
    /\ ListedRows[1].chore_id # ListedRows[2].chore_id
    /\ Len(wire) = 6
    /\ wire[6].status_code >= 400
    /\ outcome.kind = "raise"

SingleResourceGetters ==
    {"equipment.get", "users.get", "chores.get", "chores_log.get", "tasks.get"}

\* the one request of the call was answered with a success status and no body
AnsweredWithEmptyBody ==
    /\ Len(wire) = 1
    /\ wire[1].status_code < 400
    /\ wire[1].content = EmptyBody

\* C26 as claimed: a single-resource getter whose request is answered with a
\* success status and an empty body returns None to its caller and raises
\* nothing.
C26_EmptyBodyGivesNone ==
    (call.op \in SingleResourceGetters /\ AnsweredWithEmptyBody) =>
        outcome = Return(NoneV)
-----------------------------------------------------------------------------
(* The facade: Grocy constructs the transport client, and each manager on   *)
(* the first access of its property.  Objects are named by their place in   *)
(* the sequence of objects constructed.                                     *)

MaxConstructed == 3

\* the properties of Grocy and the class each one constructs
ManagerProperties ==
    [ stock |-> "StockManager", shopping_list |-> "ShoppingListManager",
      recipes |-> "RecipeManager", chores |-> "ChoreManager",
      chores_log |-> "ChoreLogManager", tasks |-> "TaskManager",
      batteries |-> "BatteryManager", equipment |-> "EquipmentManager",
      meal_plan |-> "MealPlanManager", users |-> "UserManager",
      system |-> "SystemManager", generic |-> "GenericEntityManager",
      calendar |-> "CalendarManager", files |-> "FileManager" ]

\* Grocy.__init__
GrocyInit ==
    [ _api_client |-> 1,
      objects |-> <<[cls |-> "GrocyApiClient", _api |-> 0]>>,
      dict |-> <<>> ]

\* functools.cached_property: is the value in the instance's __dict__
IsCached_never(dict, name) == FALSE

IsCached(dict, name) == name \in DOMAIN dict

\* functools.cached_property.__get__ around `return Manager(self._api_client)`
CachedProperty(self, name) ==
    IF IsCached(self.dict, name)
    THEN [self |-> self, value |-> PyObj(self.dict[name])]
    ELSE LET manager == [cls |-> ManagerProperties[name], _api |-> self._api_client]
             ref == Len(self.objects) + 1
         IN  [ self |-> [self EXCEPT !.objects = Append(self.objects, manager),
                                     !.dict = (name :> ref) @@ self.dict],
               value |-> PyObj(ref) ]

InitFacade ==
    /\ client = GrocyApiClientInit("https://example.com", "secret",
                                   DEFAULT_PORT_NUMBER, NoneV, TRUE)
    /\ srv = NoServer
    /\ call = [op |-> "none"]
    /\ wire = <<>>
    /\ outcome = NoOutcome
    /\ grocy = GrocyInit

\* grocy.<name>
Access ==
    /\ Idle
    /\ \E name \in DOMAIN ManagerProperties :
        /\ IsCached(grocy.dict, name) \/ Len(grocy.objects) <= MaxConstructed
        /\ grocy' = CachedProperty(grocy, name).self
        /\ outcome' = Return(CachedProperty(grocy, name).value)
        /\ call' = [op |-> "property", name |-> name]
        /\ wire' = <<>>
        /\ UNCHANGED <<client, srv>>

NextFacade ==
    \/ Access
    \/ TakeResult

SpecFacade == InitFacade /\ [][NextFacade]_vars

-----------------------------------------------------------------------------
(* Claims about the facade, under SpecFacade *)

\* the managers constructed so far: every object but the transport client
ManagersConstructed == {i \in DOMAIN grocy.objects : i # grocy._api_client}

\* what holds in every state of the facade
FacadeHoldsOneManagerPerPropertyAccessed ==
    /\ grocy.objects[grocy._api_client].cls = "GrocyApiClient"
    /\ \A name \in DOMAIN grocy.dict :
        /\ grocy.dict[name] \in ManagersConstructed
        /\ grocy.objects[grocy.dict[name]].cls = ManagerProperties[name]
        /\ grocy.objects[grocy.dict[name]]._api = grocy._api_client
    /\ \A i \in ManagersConstructed :
        Cardinality({name \in DOMAIN grocy.dict : grocy.dict[name] = i}) = 1
    /\ call.op = "property" =>
        /\ call.name \in DOMAIN grocy.dict
        /\ outcome = Return(PyObj(grocy.dict[call.name]))

\* what holds of every step of the facade
FacadeKeepsItsManagers ==
    /\ grocy'._api_client = grocy._api_client
    /\ \A i \in DOMAIN grocy.objects :
        i \in DOMAIN grocy'.objects /\ grocy'.objects[i] = grocy.objects[i]
    /\ \A name \in DOMAIN grocy.dict :
        name \in DOMAIN grocy'.dict /\ grocy'.dict[name] = grocy.dict[name]
    /\ \A name \in DOMAIN grocy'.dict \ DOMAIN grocy.dict :
        call'.op = "property" /\ call'.name = name

\* C12: over any sequence of property accesses on one facade, a manager is
\* constructed only by the first access of its property, at most once per
\* property, every access returns the manager its property holds, which never
\* changes, and every manager holds the transport client the constructor made.
C12_ManagersAreConstructedOnceAndShared ==
    /\ []FacadeHoldsOneManagerPerPropertyAccessed
    /\ [][FacadeKeepsItsManagers]_vars

\* a property accessed again after two other managers were constructed gives
\* the manager its first access constructed
C12_Witness ==
    /\ call.op = "property"
    /\ call.name = "chores_log"
    /\ Len(grocy.objects) = 4
    /\ outcome = Return(PyObj(2))
    /\ grocy.objects[2].cls = "ChoreLogManager"

-----------------------------------------------------------------------------
(* Hydration of one object, step by step: an object is constructed from a   *)
(* payload and get_details is called on it, again and again, against a      *)
(* server that does not change.  call.self is the object as the call left   *)
(* it.                                                                      *)

MaxHydrations == 2

\* Equipment._init_empty (pygrocy2)
Equipment_init_empty ==
    [ t |-> "pygrocy2.Equipment",
      v |-> [ _id |-> NoneV, _name |-> NoneV, _description |-> NoneV,
              _instruction_manual_file_name |-> NoneV, _created_timestamp |-> NoneV,
              _userfields |-> NoneV ] ]

\* Equipment._init_from_EquipmentData (pygrocy2)
Equipment_init_from_EquipmentData(self, response) ==
    [self EXCEPT !.v = [ _id |-> response.v["id"], _name |-> response.v["name"],
                         _description |-> response.v["description"],
                         _instruction_manual_file_name |->
                             response.v["instruction_manual_file_name"],
                         _created_timestamp |-> response.v["created_timestamp"],
                         _userfields |-> response.v["userfields"] ]]

\* Equipment._init_from_EquipmentDetailsResponse (pygrocy2)
Equipment_init_from_EquipmentDetailsResponse(self, response) ==
    Equipment_init_from_EquipmentData(self, response.v["equipment"])

\* Equipment._init_from_dict (pygrocy2)
Equipment_init_from_dict(self, response) ==
    [self EXCEPT !.v = [ _id |-> DictGet(response.v, "id"),
                         _name |-> DictGet(response.v, "name"),
                         _description |-> DictGet(response.v, "description"),
                         _instruction_manual_file_name |->
                             DictGet(response.v, "instruction_manual_file_name"),
                         _created_timestamp |->
                             PyOr(DictGet(response.v, "row_created_timestamp"),
                                  DictGet(response.v, "created_timestamp")),
                         _userfields |-> DictGet(response.v, "userfields") ]]

\* Equipment.__init__ (pygrocy2)
Equipment(response) ==
    CASE response.t = "EquipmentData" ->
            Equipment_init_from_EquipmentData(Equipment_init_empty, response)
      [] response.t = "EquipmentDetailsResponse" ->
            Equipment_init_from_EquipmentDetailsResponse(Equipment_init_empty, response)
      [] response.t = "dict" -> Equipment_init_from_dict(Equipment_init_empty, response)
      [] OTHER -> Equipment_init_empty

\* the properties of Equipment (pygrocy2): id, name, description,
\* instruction_manual_file_name, created_timestamp, userfields
EquipmentPropertyNames ==
    { "id", "name", "description", "instruction_manual_file_name", "created_timestamp",
      "userfields" }

Equipment_property(self, name) ==
    CASE name = "id" -> self.v._id
      [] name = "name" -> self.v._name
      [] name = "description" -> self.v._description
      [] name = "instruction_manual_file_name" -> self.v._instruction_manual_file_name
      [] name = "created_timestamp" -> self.v._created_timestamp
      [] name = "userfields" -> self.v._userfields

\* Equipment.as_dict (pygrocy2), were userfields left out of it
Equipment_as_dict_without_userfields(self) ==
    PyDict([ id |-> Equipment_property(self, "id"),
             name |-> Equipment_property(self, "name"),
             description |-> Equipment_property(self, "description"),
             instruction_manual_file_name |->
                 Equipment_property(self, "instruction_manual_file_name"),
             created_timestamp |-> Equipment_property(self, "created_timestamp") ])

\* Equipment.as_dict (pygrocy2)
Equipment_as_dict(self) ==
    PyDict([ id |-> Equipment_property(self, "id"),
             name |-> Equipment_property(self, "name"),
             description |-> Equipment_property(self, "description"),
             instruction_manual_file_name |->
                 Equipment_property(self, "instruction_manual_file_name"),
             created_timestamp |-> Equipment_property(self, "created_timestamp"),
             userfields |-> Equipment_property(self, "userfields") ])

\* Equipment.get_details (pygrocy2), that fills only what is still empty
Equipment_get_details_fills_empty(s, self) ==
    LET filled(details) ==
            [self EXCEPT !.v = [k \in DOMAIN self.v |->
                IF self.v[k].t = "None" THEN details.v[k] ELSE self.v[k]]]
        with_details(details) ==
            IF details.result.kind = "raise" THEN Hydrated(details.wire, self, details.result)
            ELSE IF details.result.value.t = "None"
                THEN Hydrated(details.wire, self, Raise(AttributeError))
            ELSE Hydrated(details.wire, filled(Equipment(details.result.value)),
                          Return(NoneV))
    IN  with_details(get_equipment(s, self.v["_id"].v))

\* Equipment.get_details (pygrocy2)
Equipment_get_details(s, self) ==
    LET with_details(details) ==
            IF details.result.kind = "raise" THEN Hydrated(details.wire, self, details.result)
            ELSE IF details.result.value.t = "None"
                THEN Hydrated(details.wire, self, Raise(AttributeError))
            ELSE Hydrated(details.wire,
                          Equipment_init_from_EquipmentDetailsResponse(
                              self, details.result.value),
                          Return(NoneV))
    IN  with_details(get_equipment(s, self.v["_id"].v))

\* an attribute no statement has assigned: reading it is an AttributeError
Unset == [t |-> "Unset", v |-> <<>>]

\* ChoreLog (pygrocy2) before __init__ assigns anything: it has no _init_empty
ChoreLog_new ==
    [ t |-> "pygrocy2.ChoreLog",
      v |-> [ _id |-> Unset, _chore_id |-> Unset, _tracked_time |-> Unset,
              _done_by |-> Unset, _row_created_timestamp |-> Unset, _undone |-> Unset,
              _undone_timestamp |-> Unset, _skipped |-> Unset,
              _scheduled_execution_time |-> Unset, _userfields |-> Unset ] ]

\* ChoreLog._init_from_CurrentChoreLogResponse (pygrocy2)
ChoreLog_init_from_CurrentChoreLogResponse(self, response) ==
    [self EXCEPT !.v = [ self.v EXCEPT
        !._id = response.v["id"], !._chore_id = response.v["chore_id"],
        !._tracked_time = response.v["tracked_time"],
        !._done_by = [t |-> "pygrocy2.User", v |-> response.v["done_by_user_id"]],
        !._row_created_timestamp = response.v["row_created_timestamp"],
        !._undone = response.v["undone"],
        !._undone_timestamp = response.v["undone_timestamp"],
        !._skipped = response.v["skipped"],
        !._scheduled_execution_time = response.v["scheduled_execution_time"] ]]

\* ChoreLog._init_from_ChoreLogDetailsResponse (pygrocy2)
ChoreLog_init_from_ChoreLogDetailsResponse(self, response) ==
    ChoreLog_init_from_CurrentChoreLogResponse(self, response.v["chore_log"])

\* ChoreLog.__init__ (pygrocy2)
ChoreLog(response) ==
    CASE response.t = "CurrentChoreLogResponse" ->
            ChoreLog_init_from_CurrentChoreLogResponse(ChoreLog_new, response)
      [] response.t = "ChoreLogDetailsResponse" ->
            ChoreLog_init_from_ChoreLogDetailsResponse(ChoreLog_new, response)
      [] OTHER -> ChoreLog_new

\* the methods the class ChoreLog (pygrocy2) defines
ChoreLogMethods ==
    { "__init__", "_init_from_CurrentChoreLogResponse",
      "_init_from_ChoreLogDetailsResponse", "get_details" }

\* the properties of ChoreLog (pygrocy2) and the attribute each one returns
ChoreLogProperties ==
    [ id |-> "_id", chore_id |-> "_chore_id", tracked_time |-> "_tracked_time",
      done_by |-> "_done_by", row_created_timestamp |-> "_row_created_timestamp",
      undone |-> "_undone", undone_timestamp |-> "_undone_timestamp",
      skipped |-> "_skipped", scheduled_execution_time |-> "_scheduled_execution_time",
      userfields |-> "_userfields" ]

\* self.<name> for a property of ChoreLog (pygrocy2)
ChoreLog_property(self, name) ==
    IF self.v[ChoreLogProperties[name]] = Unset THEN Raise(AttributeError)
    ELSE Return(self.v[ChoreLogProperties[name]])

\* ChoreLog.get_details (pygrocy2): the method it calls on the details is one
\* the class does not define
ChoreLog_get_details(s, self) ==
    LET with_userfields(sent, self1, uf) ==
            IF uf.result.kind = "raise" THEN Hydrated(sent \o uf.wire, self1, uf.result)
            ELSE Hydrated(sent \o uf.wire,
                          [self1 EXCEPT !.v = [self1.v EXCEPT !._userfields = uf.result.value]],
                          Return(NoneV))
        with_details(id, details) ==
            IF details.result.kind = "raise"
                THEN Hydrated(details.wire, self, details.result)
            ELSE IF "_init_from_ChoreDetailsResponse" \notin ChoreLogMethods
                THEN Hydrated(details.wire, self, Raise(AttributeError))
            ELSE with_userfields(details.wire,
                                 ChoreLog_init_from_ChoreLogDetailsResponse(
                                     self, [t |-> "ChoreLogDetailsResponse",
                                            v |-> [chore_log |-> details.result.value]]),
                                 get_userfields(s, "chores_log", id.value.v))
        asked(id) ==
            IF id.kind = "raise" THEN Hydrated(<<>>, self, id)
            ELSE with_details(id, get_chore_log(s, id.value.v))
    IN  asked(ChoreLog_property(self, "id"))

\* self.get_details(api_client), with what was fetched once kept
Hydrate_cached(s, self) ==
    CASE self.t = "ChoreLog" ->
            IF self.v["chore"].t # "None" THEN Hydrated(<<>>, self, Return(NoneV))
            ELSE ChoreLogGetDetails(s, self)
      [] self.t = "pygrocy2.ChoreLog" -> ChoreLog_get_details(s, self)
      [] OTHER -> Equipment_get_details(s, self)

\* self.get_details(api_client)
Hydrate(s, self) ==
    CASE self.t = "ChoreLog" -> ChoreLogGetDetails(s, self)
      [] self.t = "pygrocy2.ChoreLog" -> ChoreLog_get_details(s, self)
      [] OTHER -> Equipment_get_details(s, self)

HydrateServers == ChoreLogServers \cup EquipmentServers

\* servers that answer one of the requests of a chore log's get_details with an
\* empty body or with a failure
ChoreLogHydrateServers(row) ==
    LET listing(users) == [NoServer EXCEPT !.users = users]
    IN  UNION { { [listing(users) EXCEPT !.empty = <<Url("chores", row.chore_id)>>] }
                \cup { [listing(users) EXCEPT !.failing = f] :
                         f \in Failing({ Url("userfields/chores_log", row.id),
                                         Url("chores", row.chore_id) }) } :
                users \in Arrangements(UserRows, Cardinality(UserRows)) }

\* the ways an Equipment is constructed of what the server holds for a row
EquipmentResponses(row) ==
    { PyDict(EquipmentPayload(row)),
      DecodeModel("EquipmentData", EquipmentPayload(row)).value,
      DecodeModel("EquipmentDetailsResponse",
                  [equipment |-> PyDict(EquipmentPayload(row))]).value }

InitHydrate ==
    /\ client = GrocyApiClientInit("https://example.com", "secret",
                                   DEFAULT_PORT_NUMBER, NoneV, TRUE)
    /\ srv = NoServer
    /\ call = [op |-> "none"]
    /\ wire = <<>>
    /\ outcome = NoOutcome
    /\ grocy = NoFacade

\* a caller holding a server's answer constructs the object
Constructed(s, response, self) ==
    /\ srv' = s
    /\ call' = [op |-> "construct", response |-> response, self |-> self, before |-> self,
                hydrations |-> 0, sent_before |-> <<>>]
    /\ wire' = <<>>
    /\ outcome' = Return(self)
    /\ UNCHANGED <<client, grocy>>

\* ChoreLog.from_response(resp)
ConstructChoreLog ==
    /\ Idle
    /\ \E row \in ChoreLogRows :
       \E s \in ChoreLogServers \cup ChoreLogHydrateServers(row) :
        \E resp \in {DecodeModel("ChoreLogResponse", ChoreLogPayload(row)).value} :
            Constructed(s, resp, ChoreLogFromResponse(resp).value)

\* ChoreLog(response) (pygrocy2), the response a CurrentChoreLogResponse
ConstructLegacyChoreLog ==
    /\ Idle
    /\ \E row \in ChoreLogRows :
       \E s \in { [NoServer EXCEPT !.chores_log = <<row>>, !.failing = f] :
                    f \in Failing({ Url("objects/chores_log", row.id),
                                    Url("userfields/chores_log", row.id) }) } :
        \E response \in { [ t |-> "CurrentChoreLogResponse",
                             v |-> DecodeModel("ChoreLogResponse",
                                               ChoreLogPayload(row)).value.v ] } :
            Constructed(s, response, ChoreLog(response))

\* Equipment(response)
ConstructEquipment ==
    /\ Idle
    /\ \E s \in EquipmentServers, row \in EquipmentRows :
        \E response \in EquipmentResponses(row) :
            Constructed(s, response, Equipment(response))

\* self.get_details(api_client) on the object held
CallGetDetails ==
    /\ call.op \in {"construct", "get_details"}
    /\ call.hydrations < MaxHydrations
    /\ \E h \in {Hydrate(srv, call.self)} :
        /\ call' = [op |-> "get_details", response |-> call.response, self |-> h.obj,
                    before |-> call.self, hydrations |-> call.hydrations + 1,
                    sent_before |-> wire]
        /\ wire' = h.wire
        /\ outcome' = h.result
        /\ UNCHANGED <<client, srv, grocy>>

\* self.as_dict() on the Equipment held
CallAsDict ==
    /\ call.op \in {"construct", "get_details"}
    /\ call.self.t = "pygrocy2.Equipment"
    /\ call' = [call EXCEPT !.op = "as_dict", !.before = call.self, !.sent_before = wire]
    /\ wire' = <<>>
    /\ outcome' = Return(Equipment_as_dict(call.self))
    /\ UNCHANGED <<client, srv, grocy>>

NextHydrate ==
    \/ ConstructChoreLog
    \/ ConstructEquipment
    \/ ConstructLegacyChoreLog
    \/ CallGetDetails
    \/ CallAsDict
    \/ TakeResult

SpecHydrate == InitHydrate /\ [][NextHydrate]_vars

-----------------------------------------------------------------------------
(* Claims about hydration, under SpecHydrate *)

\* C16: a second get_details in a row on the same object, the server unchanged,
\* makes the requests the first one made, none left out, and leaves the object
\* as the first one left it.
C16_SecondHydrationRepeatsTheFirst ==
    (call.op = "get_details" /\ call.hydrations >= 2) =>
        /\ wire = call.sent_before
        /\ [i \in DOMAIN wire |-> wire[i].url] = [i \in DOMAIN wire |-> call.sent_before[i].url]
        /\ call.self = call.before

C16_Witness ==
    /\ call.op = "get_details"
    /\ call.hydrations = 2
    /\ call.self.t = "ChoreLog"
    /\ outcome = Return(NoneV)
    /\ Len(wire) = 3
    /\ call.self.v["done_by_user"].t = "User"

\* C17: an Equipment constructed from a lightweight payload (a raw dict or an
\* EquipmentData) and then hydrated is, field for field, the Equipment
\* constructed from the details response the hydration fetched.
C17_HydratedEqualsConstructedFromDetails ==
    (call.op = "get_details" /\ call.self.t = "pygrocy2.Equipment"
        /\ outcome.kind = "return") =>
        \E details \in {get_equipment(srv, call.before.v["_id"].v).result.value} :
            /\ details.t = "EquipmentDetailsResponse"
            /\ call.self = Equipment(details)
            /\ \A k \in DOMAIN call.self.v : call.self.v[k] = Equipment(details).v[k]

\* the lightweight object held the timestamp as the server sent it, a string
C17_Witness ==
    /\ call.op = "get_details"
    /\ call.hydrations = 1
    /\ call.self.t = "pygrocy2.Equipment"
    /\ outcome = Return(NoneV)
    /\ call.before.v["_created_timestamp"].t = "str"
    /\ call.self.v["_created_timestamp"].t = "datetime"

\* EquipmentDetailsResponse(equipment=d)
DetailsResponseOf(d) == DecodeModel("EquipmentDetailsResponse", [equipment |-> d]).value

\* C22: for an EquipmentData d, the Equipment constructed from d and the one
\* constructed from EquipmentDetailsResponse(equipment=d) have the same id,
\* name, description, instruction_manual_file_name, created_timestamp and
\* userfields, those of d (None where d has none), and as_dict returns exactly
\* these six keys with the values of the properties.
C22_DataAndDetailsGiveTheSameEquipment ==
    /\ (call.op \in {"construct", "as_dict"} /\ call.response.t = "EquipmentData"
            /\ call.hydrations = 0) =>
        \A name \in EquipmentPropertyNames :
            /\ Equipment_property(call.self, name) = call.response.v[name]
            /\ Equipment_property(Equipment(DetailsResponseOf(call.response)), name)
                    = Equipment_property(call.self, name)
    /\ call.op = "as_dict" =>
        /\ outcome.kind = "return"
        /\ outcome.value.t = "dict"
        /\ DOMAIN outcome.value.v = EquipmentPropertyNames
        /\ \A name \in EquipmentPropertyNames :
                outcome.value.v[name] = Equipment_property(call.before, name)

C22_Witness ==
    /\ call.op = "as_dict"
    /\ call.response.t = "EquipmentData"
    /\ call.hydrations = 0
    /\ outcome.value.v["userfields"] = PyDict([custom_field |-> PyStr("custom_value")])
    /\ outcome.value.v["description"] = NoneV
    /\ outcome.value.v["created_timestamp"].t = "datetime"
    /\ Equipment(DetailsResponseOf(call.response)) = call.self

EveryRequestSucceeded == \A i \in DOMAIN wire : wire[i].status_code < 400

\* C27 as claimed: ChoreLog.get_details raises nothing when its three requests
\* are answered with success, also when the chore details body is empty or the
\* user list is empty, and then leaves chore, or done_by_user, None.
C27_GetDetailsToleratesEmptyAnswers ==
    (call.op = "get_details" /\ call.self.t = "ChoreLog" /\ call.hydrations = 1
        /\ EveryRequestSucceeded) =>
        /\ outcome = Return(NoneV)
        /\ Len(wire) = 3
        /\ wire[2].content = EmptyBody => call.self.v["chore"] = NoneV
        /\ srv.users = <<>> => call.self.v["done_by_user"] = NoneV

\* C28: ChoreLog.get_details asks for the userfields, then the chore details,
\* then the user list, and assigns each result before the next request: when
\* the chore request fails, userfields holds the value fetched and chore and
\* done_by_user are as before; when the user request fails, userfields and
\* chore hold the values fetched and done_by_user is as before.
C28_GetDetailsAssignsAsItGoes ==
    (call.op = "get_details" /\ call.self.t = "ChoreLog") =>
        /\ \A i \in DOMAIN wire :
                wire[i].url.end = ChoreLogHydrateUrls([id |-> call.before.v["id"].v,
                                                      chore_id |-> call.before.v["chore_id"].v])[i]
        /\ \A i \in 1..(Len(wire) - 1) : wire[i].status_code < 400
        /\ (Len(wire) = 1 /\ wire[1].status_code >= 400) => call.self = call.before
        /\ (Len(wire) = 2 /\ wire[2].status_code >= 400) =>
            /\ call.self.v["userfields"] = UserfieldsPayload(call.before.v["id"].v)
            /\ call.self = [call.before EXCEPT !.v["userfields"] = call.self.v["userfields"]]
        /\ (Len(wire) = 3 /\ wire[3].status_code >= 400) =>
            /\ call.self.v["userfields"] = UserfieldsPayload(call.before.v["id"].v)
            /\ call.self.v["chore"].t = "Chore"
            /\ call.self.v["chore"].v.id = call.before.v["chore_id"]
            /\ call.self.v["done_by_user"] = call.before.v["done_by_user"]

\* the chore request of a first hydration failed: the userfields are the new
\* ones, the chore is still missing
C28_Witness ==
    /\ call.op = "get_details"
    /\ call.self.t = "ChoreLog"
    /\ call.hydrations = 1
    /\ Len(wire) = 2
    /\ wire[2].status_code >= 400
    /\ outcome.kind = "raise"
    /\ call.before.v["userfields"] = NoneV
    /\ call.self.v["userfields"] = PyDict([note |-> PyStr("weekly round")])
    /\ call.self.v["chore"] = NoneV

\* C29 as claimed: the get_details of the pygrocy2 ChoreLog, its requests
\* answered with success, asks for the chore log and then for its userfields,
\* returns, and leaves every property of the ChoreLog readable, userfields
\* with the value fetched.
C29_LegacyGetDetailsFetchesLogThenUserfields ==
    (call.op = "get_details" /\ call.self.t = "pygrocy2.ChoreLog"
        /\ EveryRequestSucceeded) =>
        /\ Len(wire) = 2
        /\ wire[1].url.end = Url("objects/chores_log", call.before.v._id.v)
        /\ wire[2].url.end = Url("userfields/chores_log", call.before.v._id.v)
        /\ outcome = Return(NoneV)
        /\ \A name \in DOMAIN ChoreLogProperties :
                ChoreLog_property(call.self, name).kind = "return"
        /\ ChoreLog_property(call.self, "userfields")
                = Return(UserfieldsPayload(call.before.v._id.v))

\* the file names base64.b64encode gives for the picture names of this model
KnownPictureFiles ==
    (1 :> <<"M", "S", "5", "q", "c", "G", "c", "=">>)
        @@ (12 :> <<"M", "T", "I", "u", "a", "n", "B", "n">>)
        @@ (345 :> <<"M", "z", "Q", "1", "L", "m", "p", "w", "Z", "w", "=", "=">>)

\* the names "<product_id>.jpg" of this model
KnownPictureNames ==
    (1 :> <<"1", ".", "j", "p", "g">>)
        @@ (12 :> <<"1", "2", ".", "j", "p", "g">>)
        @@ (345 :> <<"3", "4", "5", ".", "j", "p", "g">>)

UploadCall == call.op = "stock.upload_product_picture"

\* the first request of an upload: the raw file, PUT as an octet stream
PictureFilePut(x) ==
    /\ x.verb = "PUT"
    /\ x.url.end = PictureUrl(KnownPictureFiles[call.product_id])
    /\ x.headers["Content-Type"] = "application/octet-stream"
    /\ x.data = call.pic_path.content

\* the second request of an upload: the file name, PUT as JSON
PictureNamePut(x) ==
    /\ x.verb = "PUT"
    /\ x.url.end = Url("objects/products", call.product_id)
    /\ x.headers["Content-Type"] = "application/json"
    /\ x.data = [t |-> "json",
                 v |-> PyDict([picture_file_name |->
                                  PyStr(KnownPictureNames[call.product_id])])]

\* C30 as claimed: upload_product_picture PUTs the raw file and then, the
\* first PUT not failed, the file name; whatever the path it is given.
C30_UploadIssuesTheFilePutFirst ==
    UploadCall =>
        /\ Len(wire) >= 1
        /\ PictureFilePut(wire[1])
        /\ IF wire[1].status_code >= 400 THEN Len(wire) = 1
           ELSE Len(wire) = 2 /\ PictureNamePut(wire[2])

\* C30: given a path that can be opened, upload_product_picture issues two
\* PUTs in order, the raw file to files/productpictures/{base64 of
\* "<product_id>.jpg"} as an octet stream and then the file name to
\* objects/products/{product_id} as JSON; the first PUT failed, the second is
\* never issued and the error is raised.  Given a path that cannot be opened
\* it raises the error of open and issues no request.
C30_UploadPutsFileThenNameGivenAReadablePath ==
    UploadCall =>
        IF call.pic_path.content.t = "None"
        THEN wire = <<>> /\ outcome = Raise(PyError("FileNotFoundError"))
        ELSE /\ Len(wire) >= 1
             /\ PictureFilePut(wire[1])
             /\ IF wire[1].status_code >= 400
                THEN Len(wire) = 1 /\ outcome.kind = "raise"
                        /\ outcome.error.type = "GrocyError"
                ELSE /\ Len(wire) = 2
                     /\ PictureNamePut(wire[2])
                     /\ IF wire[2].status_code >= 400
                        THEN outcome.kind = "raise" /\ outcome.error.type = "GrocyError"
                        ELSE outcome = Return(NoneV)

C30_Witness ==
    /\ UploadCall
    /\ call.product_id = 345
    /\ call.pic_path.content.t # "None"
    /\ Len(wire) = 1
    /\ wire[1].status_code >= 400
    /\ outcome.kind = "raise"

====
